---------------------------- MODULE Spec2Model ----------------------------
(***************************************************************************)
(* Draiver Context Generator: the document extraction pool                 *)
(* (src/src/extraction.py), the audit log (src/src/audit.py) and the       *)
(* shared-counter retry gate (src/src/utils.py).                           *)
(*                                                                         *)
(* Spec       : one run of extract_all over a batch of paths, followed by  *)
(*              the audit report.                                          *)
(* RetrySpec  : callers of gemini_retry-wrapped functions and the          *)
(*              QuotaObserverHandler sharing _retry_state["attempts"].     *)
(* ImagesSpec : one call of _extract_images on a document.                 *)
(***************************************************************************)
EXTENDS Integers, Sequences, FiniteSets, TLC

VARIABLES
    \* ---- extract_all -------------------------------------------------
    input_exists,       \* main: does the input directory exist?
    file_paths,         \* the batch: the sequence of paths the scan finds
    main_result,        \* main: how it ended (return value or exception)
    printed,            \* main: the numbers _print_summary printed
    num_threads,        \* max_workers of the ThreadPoolExecutor
    images_dir,         \* "None" or the images directory
    mainpc,             \* position of the main thread, in main and extract_all
    pc,                 \* per job: position of its _worker call
    worker,             \* per job: number of the pool thread running it (0: none)
    handlers,           \* handlers attached to the root logger
    warnings_captured,  \* per job: the list its _WarningCapture appends to
    local,              \* per job: locals of extract_context / _worker
    future,             \* per job: state of its Future
    entries,            \* AuditLog._entries
    results,            \* list(executor.map(...)) as far as collected
    returned,           \* value returned by extract_all (or NoValue)
    finished,           \* job numbers in the order their futures completed
    job,                \* per job: what has happened to it (history)
    image_writes,       \* the files written into images_dir, with their writers
    report,             \* the report write_report wrote (or NoReport)
    \* ---- _extract_images, called on its own ---------------------------
    ei,                 \* arguments, locals and position of the call
    \* ---- one _WarningCapture handler on its own -----------------------
    cap,                \* the handler, its target list and the records logged
    \* ---- one AuditLog on its own --------------------------------------
    al,                 \* the log's fields, the clock and the report file
    \* ---- match_images, called in sequence -----------------------------
    mi,                 \* the images directory, used_images and the calls
    \* ---- write_output, called on its own ------------------------------
    wo,                 \* the results, the mode and the files written
    \* ---- callers of the retry gate sharing the counter ----------------
    hist,               \* per call: the counter at its start, and whether
                        \* nobody else has changed the counter since
    \* ---- retry gate --------------------------------------------------
    attempts,           \* _retry_state["attempts"]
    cpc,                \* per call of a wrapped function: position inside wrapper
    call,               \* per call: its locals and its history
    opc,                \* position of QuotaObserverHandler.emit
    obs                 \* bookkeeping of the record emit is handling

poolvars == <<input_exists, file_paths, main_result, printed, num_threads, images_dir, mainpc, pc, worker, handlers,
              warnings_captured, local, future, entries, results,
              returned, finished, job, image_writes, report>>
retryvars == <<attempts, cpc, call, opc, obs>>
vars == <<poolvars, retryvars, ei, cap, al, mi, wo, hist>>

\* ------------------------------------------------------------------------
\* Bounds of the model
\* ------------------------------------------------------------------------
MaxBatch == 2       \* longest batch handed to extract_all
MaxEmit == 1        \* most records captured for one document

\* The pool sizes the program runs with unless told otherwise: the default of
\* extract_all's num_threads parameter and config.DEFAULT_THREADS, the
\* default of main's --threads option.
DefaultNumThreads == 1
DEFAULT_THREADS == 2

NoValue == "NoValue"
None == "None"

\* ------------------------------------------------------------------------
\* Paths (pathlib.Path): .name, .stem
\* ------------------------------------------------------------------------
\* The files scan_input_folder can find, in sorted order: two files share
\* every stem (doc1.docx, doc1.pdf, doc2.docx, ...).
PathAt(i) == [stem |-> "doc" \o ToString((i + 1) \div 2),
              suffix |-> IF i % 2 = 1 THEN ".docx" ELSE ".pdf"]

PathName(p) == p.stem \o p.suffix

\* Strictly increasing index sequences of length n over 1..m: the sorted,
\* duplicate-free lists scan_input_folder returns.
RECURSIVE IncSeqs(_, _)
IncSeqs(n, m) ==
    IF n = 0 THEN {<<>>}
    ELSE IF m = 0 THEN {}
    ELSE IncSeqs(n, m - 1) \cup {Append(s, m) : s \in IncSeqs(n - 1, m - 1)}

Batches == UNION {{[i \in 1..n |-> PathAt(s[i])] : s \in IncSeqs(n, MaxBatch)}
                  : n \in 0..MaxBatch}

\* st_size of a path, in bytes (fixed per file).
StatSize(p) == IF p.suffix = ".pdf" THEN 131072 ELSE 1572864

\* round(st_size / (1024 * 1024), 2), in hundredths of a MB (round-half-even).
RoundMB(bytes) ==
    LET q == (bytes * 100) \div 1048576
        r == (bytes * 100) % 1048576
    IN  IF 2 * r > 1048576 THEN q + 1
        ELSE IF 2 * r < 1048576 THEN q
        ELSE IF q % 2 = 0 THEN q ELSE q + 1

\* ------------------------------------------------------------------------
\* logging
\* ------------------------------------------------------------------------
LevelNo == [DEBUG |-> 10, INFO |-> 20, WARNING |-> 30, ERROR |-> 40,
            CRITICAL |-> 50]

\* Logger names as sequences of name parts and dots.
DoclingPrefix == <<"docling", ".">>

StartsWith(name, prefix) ==
    /\ Len(name) >= Len(prefix)
    /\ SubSeq(name, 1, Len(prefix)) = prefix

\* What the converter (or anything it calls) may log while it runs.
LogKinds ==
    { [name |-> <<"docling", ".", "backend">>, levelname |-> "WARNING"],
      [name |-> <<"docling", ".", "backend">>, levelname |-> "INFO"],
      [name |-> <<"pypdf">>,                  levelname |-> "ERROR"] }

ThreadName(t) == <<"worker", t - 1>>

\* _WarningCapture(file_path.name, warnings_captured, thread_name)
WarningCapture(j, t) ==
    [source_file |-> PathName(file_paths[j]), target |-> j,
     thread_name |-> ThreadName(t), level |-> LevelNo.WARNING]

\* As FormatRecord, without the level.
FormatRecordBare(rec) == <<rec.name, rec.msg>>

\* f"[{record.levelname}] {record.name}: {record.getMessage()}"
FormatRecord(rec) == <<rec.levelname, rec.name, rec.msg>>

\* As Captures, without the test of the current thread's name.
CapturesAnyThread(h, rec, current) ==
    /\ LevelNo[rec.levelname] >= h.level
    /\ StartsWith(rec.name, DoclingPrefix)

\* _WarningCapture.emit, with Handler.handle's level test: does handler h
\* accept record rec logged on the thread named current?
Captures(h, rec, current) ==
    /\ LevelNo[rec.levelname] >= h.level
    /\ current = h.thread_name
    /\ StartsWith(rec.name, DoclingPrefix)

\* As RemoveHandler, leaving the handler attached.
RemoveHandlerSkipped(attached, h) == attached

\* root_logger.removeHandler(handler)
RemoveHandler(attached, h) == attached \ {h}

\* Logger.callHandlers on the root logger: every attached handler sees rec.
CallHandlers(lists, rec, current) ==
    [j \in DOMAIN lists |->
        IF \E h \in handlers : h.target = j /\ Captures(h, rec, current)
        THEN Append(lists[j], FormatRecord(rec))
        ELSE lists[j]]


\* ------------------------------------------------------------------------
\* Documents the converter returns
\* ------------------------------------------------------------------------
\* doc.pages is absent or has that many pages; doc.pictures is absent or
\* lists the pictures: "ok" can be saved, "nodata" has no image or no
\* pil_image, "bad" makes pil_img.save raise.
PictureKinds == {"ok", "nodata", "bad"}

Docs == { [has_pages |-> FALSE, pages |-> 0, has_pictures |-> FALSE,
           pictures |-> <<>>],
          [has_pages |-> TRUE,  pages |-> 2, has_pictures |-> TRUE,
           pictures |-> <<"ok", "nodata", "bad", "ok">>] }

NoDoc == [has_pages |-> FALSE, pages |-> 0, has_pictures |-> FALSE,
          pictures |-> <<>>]

\* _get_page_count
GetPageCount(doc) == IF doc.has_pages /\ doc.pages /= 0 THEN doc.pages ELSE 0

\* ------------------------------------------------------------------------
\* _extract_images
\* ------------------------------------------------------------------------
MaxPictures == 3    \* longest picture list handed to _extract_images alone

\* f"{idx:03d}": decimal digits, padded with zeros to at least three.
Pad3(idx) ==
    IF idx < 10 THEN "00" \o ToString(idx)
    ELSE IF idx < 100 THEN "0" \o ToString(idx)
    ELSE ToString(idx)

\* As ImgName, without the padding.
ImgNameUnpadded(doc_stem, idx) == doc_stem \o "_img_" \o ToString(idx) \o ".png"

\* img_name = f"{doc_stem}_img_{idx:03d}.{ext}" with ext = "png"
ImgName(doc_stem, idx) == doc_stem \o "_img_" \o Pad3(idx) \o ".png"

\* if pic.image is None or pic.image.pil_image is None: continue
HasImageData(pic) == pic /= "nodata"

\* As PictureStep, counting the picture before it is saved.
PictureStepCountsFirst(doc_stem, idx, pic, st) ==
    IF ~HasImageData(pic) THEN st
    ELSE IF pic = "ok"
    THEN [st EXCEPT !.count = @ + 1,
                    !.files = @ \cup {[name |-> ImgName(doc_stem, idx),
                                       idx |-> idx]}]
    ELSE [st EXCEPT !.count = @ + 1]

\* One iteration of "for idx, pic in enumerate(doc.pictures)" on the loop
\* state st = [count, files]: a picture without data is skipped, a picture
\* whose save raises is logged and skipped, any other is written to
\* images_dir / img_name and counted.
PictureStep(doc_stem, idx, pic, st) ==
    IF ~HasImageData(pic) THEN st
    ELSE IF pic = "ok"
    THEN [st EXCEPT !.count = @ + 1,
                    !.files = @ \cup {[name |-> ImgName(doc_stem, idx),
                                       idx |-> idx]}]
    ELSE st

LoopStart == [count |-> 0, files |-> {}]

\* The loop from the picture at position i (idx = i - 1) to the end.
RECURSIVE LoopFrom(_, _, _, _)
LoopFrom(doc_stem, pictures, i, st) ==
    IF i > Len(pictures) THEN st
    ELSE LoopFrom(doc_stem, pictures, i + 1,
                  PictureStep(doc_stem, i - 1, pictures[i], st))

\* if not hasattr(doc, "pictures") or not doc.pictures: return 0
NoPictures(doc) == ~doc.has_pictures \/ doc.pictures = <<>>

\* _extract_images after images_dir.mkdir succeeded: the count it returns and
\* the files it wrote.
ExtractImages(doc, doc_stem) ==
    IF NoPictures(doc) THEN LoopStart
    ELSE LoopFrom(doc_stem, doc.pictures, 1, LoopStart)

\* ------------------------------------------------------------------------
\* State after construction: extract_all has not been called yet
\* ------------------------------------------------------------------------
Jobs == DOMAIN file_paths

NoLocal == [file_size |-> 0, doc |-> NoDoc, page_count |-> 0,
            images_extracted |-> 0, result |-> [isnone |-> TRUE]]

\* History of a job: how often _converter.convert and _extract_images were
\* called for it and whether a step of extract_context's try block raised.
NoHistory == [converts |-> 0, extracts |-> 0, raised |-> FALSE]

NoReport == [written |-> FALSE]

\* main has not ended.
NoResult == [kind |-> "none"]

\* _print_summary has not been called.
NoSummary == [printed |-> FALSE]

PoolInit ==
    /\ file_paths \in Batches
    /\ input_exists \in BOOLEAN
    /\ ~input_exists => file_paths = <<>>
    /\ main_result = NoResult
    /\ printed = NoSummary
    /\ num_threads \in {DefaultNumThreads, DEFAULT_THREADS}
    /\ images_dir \in {None, "images"}
    /\ mainpc = "scan"
    /\ pc = [j \in DOMAIN file_paths |-> "new"]
    /\ worker = [j \in DOMAIN file_paths |-> 0]
    /\ handlers = {}
    /\ warnings_captured = [j \in DOMAIN file_paths |-> <<>>]
    /\ local = [j \in DOMAIN file_paths |-> NoLocal]
    /\ future = [j \in DOMAIN file_paths |-> [state |-> "NEW"]]
    /\ entries = <<>>
    /\ results = <<>>
    /\ returned = [kind |-> NoValue]
    /\ finished = <<>>
    /\ job = [j \in DOMAIN file_paths |-> NoHistory]
    /\ image_writes = {}
    /\ report = NoReport

PoolIdle ==
    /\ input_exists = FALSE
    /\ file_paths = <<>>
    /\ main_result = NoResult
    /\ printed = NoSummary
    /\ num_threads = 1
    /\ images_dir = None
    /\ mainpc = "off"
    /\ pc = <<>>
    /\ worker = <<>>
    /\ handlers = {}
    /\ warnings_captured = <<>>
    /\ local = <<>>
    /\ future = <<>>
    /\ entries = <<>>
    /\ results = <<>>
    /\ returned = [kind |-> NoValue]
    /\ finished = <<>>
    /\ job = <<>>
    /\ image_writes = {}
    /\ report = NoReport

\* Positions of a job at which a pool thread is inside _worker for it.
RunningPcs == {"stat", "attach", "convert", "export", "images", "return",
               "except", "audit", "returning"}

\* ------------------------------------------------------------------------
\* AuditLog.add_entry
\* ------------------------------------------------------------------------
\* As AddEntryTo, with an append that starts from a list read before the
\* other threads' appends (their entries are lost).
AddEntryLosing(log, source_file, status, page_count, images_extracted, warnings, error, file_size) ==
    <<[source_file |-> source_file,
       status |-> status,
       file_size_mb |-> RoundMB(file_size),
       page_count |-> page_count,
       images_extracted |-> images_extracted,
       warnings |-> warnings,
       error |-> error]>>

\* As AddEntryTo, with the new entry taking the place of the latest one.
AddEntryReplacing(log, source_file, status, page_count, images_extracted, warnings, error, file_size) ==
    SubSeq(log, 1, Len(log) - 1)
        \o <<[source_file |-> source_file,
              status |-> status,
              file_size_mb |-> RoundMB(file_size),
              page_count |-> page_count,
              images_extracted |-> images_extracted,
              warnings |-> warnings,
              error |-> error]>>

\* As AddEntryTo, with the new entry put in front.
AddEntryInFront(log, source_file, status, page_count, images_extracted, warnings, error, file_size) ==
    <<[source_file |-> source_file,
       status |-> status,
       file_size_mb |-> RoundMB(file_size),
       page_count |-> page_count,
       images_extracted |-> images_extracted,
       warnings |-> warnings,
       error |-> error]>> \o log

\* As AddEntryTo, recording no warnings.
AddEntryNoWarnings(log, source_file, status, page_count, images_extracted, warnings, error, file_size) ==
    Append(log, [source_file |-> source_file,
                 status |-> status,
                 file_size_mb |-> RoundMB(file_size),
                 page_count |-> page_count,
                 images_extracted |-> images_extracted,
                 warnings |-> <<>>,
                 error |-> error])

\* The entry dict is built from the arguments and appended with one
\* list.append call, which is atomic.
AddEntryTo(log, source_file, status, page_count, images_extracted, warnings, error, file_size) ==
    Append(log, [source_file |-> source_file,
                 status |-> status,
                 file_size_mb |-> RoundMB(file_size),
                 page_count |-> page_count,
                 images_extracted |-> images_extracted,
                 warnings |-> warnings,
                 error |-> error])

ConversionFailedText == "Docling conversion failed (see console logs)"

\* ------------------------------------------------------------------------
\* extract_all: the calling thread
\* ------------------------------------------------------------------------
\* executor.map submits one future per path, in input order.
\* ------------------------------------------------------------------------
\* main: the scan of the input directory (main.py, src/ingestion.py)
\* ------------------------------------------------------------------------
\* scan_input_folder raises FileNotFoundError: logger.error, return 1
ScanMissing ==
    /\ mainpc = "scan"
    /\ ~input_exists
    /\ mainpc' = "exited"
    /\ main_result' = [kind |-> "returned", value |-> 1]
    /\ UNCHANGED <<printed, file_paths, input_exists, num_threads, images_dir, job,
                   image_writes, report, pc, worker, handlers,
                   warnings_captured, local, future, entries, results,
                   returned, finished>>

\* if not file_paths: logger.warning, return 0
ScanEmpty ==
    /\ mainpc = "scan"
    /\ input_exists
    /\ file_paths = <<>>
    /\ mainpc' = "exited"
    /\ main_result' = [kind |-> "returned", value |-> 0]
    /\ UNCHANGED <<printed, file_paths, input_exists, num_threads, images_dir, job,
                   image_writes, report, pc, worker, handlers,
                   warnings_captured, local, future, entries, results,
                   returned, finished>>

\* The scan found documents: main goes on to call extract_all.
ScanFound ==
    /\ mainpc = "scan"
    /\ input_exists
    /\ file_paths /= <<>>
    /\ mainpc' = "call"
    /\ UNCHANGED <<printed, file_paths, input_exists, main_result, num_threads,
                   images_dir, job, image_writes, report, pc, worker,
                   handlers, warnings_captured, local, future, entries,
                   results, returned, finished>>

\* return 0 if docs else 1
ExitCode(docs) == IF docs /= <<>> THEN 0 ELSE 1

\* As TotalImages, counting the documents that have images.
RECURSIVE TotalImagesCounted(_)
TotalImagesCounted(docs) ==
    IF docs = <<>> THEN 0
    ELSE (IF Head(docs).images_extracted > 0 THEN 1 ELSE 0)
         + TotalImagesCounted(Tail(docs))

\* total_images = sum(d.get("images_extracted", 0) for d in docs)
RECURSIVE TotalImages(_)
TotalImages(docs) ==
    IF docs = <<>> THEN 0
    ELSE Head(docs).images_extracted + TotalImages(Tail(docs))

\* total_warnings = sum(len(d.get("warnings", [])) for d in docs)
RECURSIVE TotalWarnings(_)
TotalWarnings(docs) ==
    IF docs = <<>> THEN 0
    ELSE Len(Head(docs).warnings) + TotalWarnings(Tail(docs))

\* The numbers _print_summary computes and prints.
PrintSummary(docs, failed) ==
    [printed |-> TRUE,
     processed |-> Len(docs),
     failed |-> Len(failed),
     total_images |-> TotalImages(docs),
     total_warnings |-> TotalWarnings(docs)]

\* _print_summary(...); return 0 if docs else 1
MainReturns ==
    /\ mainpc = "reported"
    /\ main_result = NoResult
    /\ printed' = PrintSummary(returned.successful, returned.failed)
    /\ main_result' = [kind |-> "returned",
                       value |-> ExitCode(returned.successful)]
    /\ UNCHANGED <<file_paths, input_exists, num_threads, images_dir, job,
                   image_writes, report, mainpc, pc, worker, handlers,
                   warnings_captured, local, future, entries, results,
                   returned, finished>>

\* The exception that left extract_all leaves main: nothing in main catches
\* it, no report is written and main returns no value.
MainRaises ==
    /\ mainpc = "raised"
    /\ main_result = NoResult
    /\ main_result' = [kind |-> "raised"]
    /\ UNCHANGED <<printed, file_paths, input_exists, num_threads, images_dir, job,
                   image_writes, report, mainpc, pc, worker, handlers,
                   warnings_captured, local, future, entries, results,
                   returned, finished>>

Submit ==
    /\ mainpc = "call"
    /\ mainpc' = "map"
    /\ pc' = [j \in Jobs |-> "queued"]
    /\ future' = [j \in Jobs |-> [state |-> "PENDING"]]
    /\ UNCHANGED <<printed, file_paths, input_exists, main_result, num_threads, images_dir, job, image_writes, report, worker, handlers,
                   warnings_captured, local, entries, results,
                   returned, finished>>

\* list(executor.map(...)): the result iterator yields future i's result once
\* it is there ...
CollectResult ==
    /\ mainpc = "map"
    /\ Len(results) < Len(file_paths)
    /\ LET i == Len(results) + 1 IN
        /\ future[i].state = "FINISHED"
        /\ future[i].outcome = "result"
        /\ results' = Append(results, future[i].value)
    /\ UNCHANGED <<printed, file_paths, input_exists, main_result, num_threads, images_dir, job, image_writes, report, mainpc, pc, worker,
                   handlers, warnings_captured, local, future, entries,
                   returned, finished>>

\* ... or re-raises future i's exception; the iterator's finally clause then
\* cancels every future that has not started.
CollectException ==
    /\ mainpc = "map"
    /\ Len(results) < Len(file_paths)
    /\ LET i == Len(results) + 1 IN
        /\ future[i].state = "FINISHED"
        /\ future[i].outcome = "exception"
    /\ mainpc' = "unwind"
    /\ pc' = [j \in Jobs |-> IF pc[j] = "queued" THEN "cancelled" ELSE pc[j]]
    /\ future' = [j \in Jobs |-> IF pc[j] = "queued"
                                 THEN [state |-> "CANCELLED"] ELSE future[j]]
    /\ UNCHANGED <<printed, file_paths, input_exists, main_result, num_threads, images_dir, job, image_writes, report, worker, handlers,
                   warnings_captured, local, entries, results,
                   returned, finished>>

\* The with block's exit, executor.shutdown(wait=True), joins the pool threads.
PoolJoined == \A j \in Jobs : pc[j] \notin RunningPcs \cup {"queued"}

\* As Successful, inserting at the front of the list.
RECURSIVE SuccessfulReversed(_)
SuccessfulReversed(res) ==
    IF res = <<>> THEN <<>>
    ELSE IF Head(res).isdict
         THEN SuccessfulReversed(Tail(res)) \o <<Head(res).value>>
    ELSE SuccessfulReversed(Tail(res))

\* The partition loop of extract_all
RECURSIVE Successful(_)
Successful(res) ==
    IF res = <<>> THEN <<>>
    ELSE IF Head(res).isdict THEN <<Head(res).value>> \o Successful(Tail(res))
    ELSE Successful(Tail(res))

\* As Failed, without the else branch of the partition loop.
FailedDropped(res) == <<>>

RECURSIVE Failed(_)
Failed(res) ==
    IF res = <<>> THEN <<>>
    ELSE IF Head(res).isdict THEN Failed(Tail(res))
    ELSE <<Head(res).value>> \o Failed(Tail(res))

\* All results collected: leave the with block, partition, return the tuple.
ReturnLists ==
    /\ mainpc = "map"
    /\ Len(results) = Len(file_paths)
    /\ PoolJoined
    /\ mainpc' = "returned"
    /\ returned' = [kind |-> "lists", successful |-> Successful(results),
                    failed |-> Failed(results)]
    /\ UNCHANGED <<printed, file_paths, input_exists, main_result, num_threads, images_dir, job, image_writes, report, pc, worker, handlers,
                   warnings_captured, local, future, entries, results,
                   finished>>

\* A job's exception leaves extract_all once the pool threads are joined.
Propagate ==
    /\ mainpc = "unwind"
    /\ PoolJoined
    /\ mainpc' = "raised"
    /\ returned' = [kind |-> "exception"]
    /\ UNCHANGED <<printed, file_paths, input_exists, main_result, num_threads, images_dir, job, image_writes, report, pc, worker, handlers,
                   warnings_captured, local, future, entries, results,
                   finished>>

\* ------------------------------------------------------------------------
\* AuditLog.write_report
\* ------------------------------------------------------------------------
\* As WithStatus, without the condition.
WithAnyStatus(log, status) == log

\* [e for e in self._entries if e["status"] == status]
WithStatus(log, status) == SelectSeq(log, LAMBDA e : e.status = status)

\* As SumImages, counting the entries that have images.
RECURSIVE CountWithImages(_)
CountWithImages(log) ==
    IF log = <<>> THEN 0
    ELSE (IF Head(log).images_extracted > 0 THEN 1 ELSE 0)
         + CountWithImages(Tail(log))

\* sum(e["images_extracted"] for e in self._entries)
RECURSIVE SumImages(_)
SumImages(log) ==
    IF log = <<>> THEN 0
    ELSE Head(log).images_extracted + SumImages(Tail(log))

\* sum(len(e["warnings"]) for e in self._entries)
RECURSIVE SumWarnings(_)
SumWarnings(log) ==
    IF log = <<>> THEN 0
    ELSE Len(Head(log).warnings) + SumWarnings(Tail(log))

\* As Total, counting the converted documents only.
TotalConverted(log) ==
    Len(WithStatus(log, "success")) + Len(WithStatus(log, "partial"))

\* "total_documents": len(self._entries)
Total(log) == Len(log)

\* The report dict (run_timestamp omitted: no formula reads it).
Report(log) ==
    [written |-> TRUE,
     summary |-> [total_documents |-> Total(log),
                  successful |-> Len(WithStatus(log, "success")),
                  partial |-> Len(WithStatus(log, "partial")),
                  failed |-> Len(WithStatus(log, "failed")),
                  total_images_extracted |-> SumImages(log),
                  total_warnings |-> SumWarnings(log)],
     documents |-> log]

\* main, step 4: audit.write_report(args.output) after extract_all returned.
WriteReport ==
    /\ mainpc = "returned"
    /\ mainpc' = "reported"
    /\ report' = Report(entries)
    /\ UNCHANGED <<printed, file_paths, input_exists, main_result, num_threads, images_dir, job, image_writes,
                   pc, worker, handlers, warnings_captured, local, future,
                   entries, results, returned, finished>>

\* ------------------------------------------------------------------------
\* extract_all._worker and extract_context: the pool threads
\* ------------------------------------------------------------------------
Threads == 1..num_threads

\* As Idle, for a pool thread that takes work while it is running a job.
IdleAlways(t) == TRUE

\* A pool thread is idle when it is not inside _worker for any job.
Idle(t) == \A k \in Jobs : ~(worker[k] = t /\ pc[k] \in RunningPcs)

\* The work queue is first in, first out: the next job is the first queued one.
NextQueued(j) == pc[j] = "queued" /\ \A k \in Jobs : k < j => pc[k] /= "queued"

\* An idle pool thread takes the next work item and calls _worker(path).
\* Idle threads hold no state, so which of them takes it matters only for
\* the thread's number: the lowest-numbered idle thread does.
StartJob(t, j) ==
    /\ Idle(t)
    /\ \A u \in Threads : u < t => ~Idle(u)
    /\ NextQueued(j)
    /\ pc' = [pc EXCEPT ![j] = "stat"]
    /\ worker' = [worker EXCEPT ![j] = t]
    /\ future' = [future EXCEPT ![j] = [state |-> "RUNNING"]]
    /\ UNCHANGED <<printed, file_paths, input_exists, main_result, num_threads, images_dir, job, image_writes, report, mainpc, handlers,
                   warnings_captured, local, entries, results,
                   returned, finished>>

\* file_size_mb = path.stat().st_size / (1024 * 1024)
StatOk(j) ==
    /\ pc[j] = "stat"
    /\ pc' = [pc EXCEPT ![j] = "attach"]
    /\ local' = [local EXCEPT ![j].file_size = StatSize(file_paths[j])]
    /\ UNCHANGED <<printed, file_paths, input_exists, main_result, num_threads, images_dir, job, image_writes, report, mainpc, worker, handlers,
                   warnings_captured, future, entries, results,
                   returned, finished>>

\* path.stat() raises (the file is gone or unreadable): nothing in _worker
\* catches it, so the exception becomes the outcome of the job's future and
\* the thread is free again.
StatRaises(j) ==
    /\ pc[j] = "stat"
    /\ pc' = [pc EXCEPT ![j] = "raised"]
    /\ future' = [future EXCEPT ![j] = [state |-> "FINISHED", outcome |-> "exception"]]
    /\ finished' = Append(finished, j)
    /\ worker' = [worker EXCEPT ![j] = 0]
    /\ UNCHANGED <<printed, file_paths, input_exists, main_result, num_threads, images_dir, job, image_writes, report, mainpc, handlers,
                   warnings_captured, local, entries, results, returned>>

\* extract_context up to the try: create the capture handler for this thread
\* and attach it to the root logger.
AttachHandler(j) ==
    /\ pc[j] = "attach"
    /\ handlers' = handlers \cup {WarningCapture(j, worker[j])}
    /\ pc' = [pc EXCEPT ![j] = "convert"]
    /\ UNCHANGED <<printed, file_paths, input_exists, main_result, num_threads, images_dir, job, image_writes, report, mainpc, worker,
                   warnings_captured, local, future, entries, results,
                   returned, finished>>

\* While _converter.convert runs on the job's thread, a logger emits a record;
\* it propagates to the root logger, whose handlers all see it.
ConverterLogs(j, kind) ==
    /\ pc[j] = "convert"
    /\ Len(warnings_captured[j]) < MaxEmit
    /\ LET rec == [name |-> kind.name, levelname |-> kind.levelname,
                   msg |-> <<PathName(file_paths[j]), Len(warnings_captured[j]) + 1>>]
       IN  warnings_captured' =
               CallHandlers(warnings_captured, rec, ThreadName(worker[j]))
    /\ UNCHANGED <<printed, file_paths, input_exists, main_result, num_threads, images_dir, job, image_writes, report, mainpc, pc, worker,
                   handlers, local, future, entries, results, returned, finished>>

\* As NextStatement, with image extraction placed before the page count.
NextStatementImagesFirst(stmt) ==
    CASE stmt = "convert" -> "images"
      [] stmt = "images"  -> "export"
      [] stmt = "export"  -> "return"

\* The statements of extract_context's try block in textual order: the
\* statement control reaches when stmt completes without raising.
NextStatement(stmt) ==
    CASE stmt = "convert" -> "export"
      [] stmt = "export"  -> "images"
      [] stmt = "images"  -> "return"

\* result = _converter.convert(str(file_path)); doc = result.document
ConvertReturns(j, d) ==
    /\ pc[j] = "convert"
    /\ pc' = [pc EXCEPT ![j] = NextStatement("convert")]
    /\ local' = [local EXCEPT ![j].doc = d]
    /\ job' = [job EXCEPT ![j].converts = @ + 1]
    /\ UNCHANGED <<printed, file_paths, input_exists, main_result, num_threads, images_dir, image_writes, report, mainpc, worker, handlers,
                   warnings_captured, future, entries, results,
                   returned, finished>>

ConvertRaises(j) ==
    /\ pc[j] = "convert"
    /\ pc' = [pc EXCEPT ![j] = "except"]
    /\ job' = [job EXCEPT ![j].converts = @ + 1, ![j].raised = TRUE]
    /\ UNCHANGED <<printed, file_paths, input_exists, main_result, num_threads, images_dir, image_writes, report, mainpc, worker, handlers,
                   warnings_captured, local, future, entries, results,
                   returned, finished>>

\* markdown_content = doc.export_to_markdown(); page_count = _get_page_count(doc)
ExportOk(j) ==
    /\ pc[j] = "export"
    /\ pc' = [pc EXCEPT ![j] = NextStatement("export")]
    /\ local' = [local EXCEPT ![j].page_count = GetPageCount(local[j].doc)]
    /\ UNCHANGED <<printed, file_paths, input_exists, main_result, num_threads, images_dir, job, image_writes, report, mainpc, worker, handlers,
                   warnings_captured, future, entries, results,
                   returned, finished>>

\* doc.export_to_markdown() raises. The except clause reads none of the try
\* block's locals, so they are dropped with the exception.
ExportRaises(j) ==
    /\ pc[j] = "export"
    /\ pc' = [pc EXCEPT ![j] = "except"]
    /\ job' = [job EXCEPT ![j].raised = TRUE]
    /\ local' = [local EXCEPT ![j].doc = NoDoc]
    /\ UNCHANGED <<printed, file_paths, input_exists, main_result, num_threads, images_dir, image_writes, report, mainpc, worker, handlers,
                   warnings_captured, future, entries, results,
                   returned, finished>>

\* As WithImages, whatever the directory.
WithImagesAlways(dir) == TRUE

\* if images_dir is not None
WithImages(dir) == dir /= None

\* images_extracted = 0; if images_dir is not None: images_extracted =
\* _extract_images(doc, file_path.stem, images_dir)
ImagesOk(j) ==
    /\ pc[j] = "images"
    /\ pc' = [pc EXCEPT ![j] = NextStatement("images")]
    /\ LET run == ExtractImages(local[j].doc, file_paths[j].stem) IN
        IF WithImages(images_dir)
        THEN /\ local' = [local EXCEPT ![j].images_extracted = run.count]
             /\ image_writes' = image_writes \cup
                    {[path |-> <<images_dir, f.name>>, job |-> j, idx |-> f.idx]
                        : f \in run.files}
             /\ job' = [job EXCEPT ![j].extracts = @ + 1]
        ELSE /\ local' = [local EXCEPT ![j].images_extracted = 0]
             /\ image_writes' = image_writes
             /\ job' = job
    /\ UNCHANGED <<printed, file_paths, input_exists, main_result, num_threads, images_dir, report, mainpc, worker, handlers,
                   warnings_captured, future, entries, results,
                   returned, finished>>

\* images_dir.mkdir raises inside _extract_images: the exception reaches
\* extract_context's except clause (the try block's locals are dropped).
ImagesRaises(j) ==
    /\ pc[j] = "images"
    /\ WithImages(images_dir)
    /\ pc' = [pc EXCEPT ![j] = "except"]
    /\ job' = [job EXCEPT ![j].extracts = @ + 1, ![j].raised = TRUE]
    /\ local' = [local EXCEPT ![j].doc = NoDoc, ![j].page_count = 0]
    /\ UNCHANGED <<printed, file_paths, input_exists, main_result, num_threads, images_dir, image_writes, report, mainpc, worker, handlers,
                   warnings_captured, future, entries, results,
                   returned, finished>>

\* The dict extract_context returns (title omitted: no formula reads it).
ContextDict(j) ==
    [source_file |-> PathName(file_paths[j]),
     markdown_content |-> <<"markdown", PathName(file_paths[j])>>,
     page_count |-> local[j].page_count,
     images_extracted |-> local[j].images_extracted,
     warnings |-> warnings_captured[j]]

\* return {...}, then the finally clause: root_logger.removeHandler(handler).
\* The frame of extract_context is gone afterwards: its locals, the captured
\* list among them, are no longer reachable (the dict holds a copy).
ContextReturns(j) ==
    /\ pc[j] = "return"
    /\ local' = [local EXCEPT ![j] = [NoLocal EXCEPT
                    !.file_size = local[j].file_size,
                    !.result = [isnone |-> FALSE, value |-> ContextDict(j)]]]
    /\ handlers' = RemoveHandler(handlers, WarningCapture(j, worker[j]))
    /\ warnings_captured' = [warnings_captured EXCEPT ![j] = <<>>]
    /\ pc' = [pc EXCEPT ![j] = "audit"]
    /\ UNCHANGED <<printed, file_paths, input_exists, main_result, num_threads, images_dir, job, image_writes, report, mainpc, worker,
                   future, entries, results, returned, finished>>

\* except Exception: log, return None; then the finally clause
ContextFails(j) ==
    /\ pc[j] = "except"
    /\ local' = [local EXCEPT ![j] = [NoLocal EXCEPT
                    !.file_size = local[j].file_size,
                    !.result = [isnone |-> TRUE]]]
    /\ handlers' = RemoveHandler(handlers, WarningCapture(j, worker[j]))
    /\ warnings_captured' = [warnings_captured EXCEPT ![j] = <<>>]
    /\ pc' = [pc EXCEPT ![j] = "audit"]
    /\ UNCHANGED <<printed, file_paths, input_exists, main_result, num_threads, images_dir, job, image_writes, report, mainpc, worker,
                   future, entries, results, returned, finished>>

\* As StatusOf, never "partial".
StatusAlwaysSuccess(result) == "success"

\* status = "partial" if result["warnings"] else "success"
StatusOf(result) == IF result.warnings /= <<>> THEN "partial" ELSE "success"

\* _worker after extract_context: record the audit entry
RecordEntry(j) ==
    /\ pc[j] = "audit"
    /\ entries' =
        IF ~local[j].result.isnone
        THEN LET result == local[j].result.value IN
             AddEntryTo(entries, result.source_file, StatusOf(result),
                        result.page_count, result.images_extracted,
                        result.warnings, None, local[j].file_size)
        ELSE AddEntryTo(entries, PathName(file_paths[j]), "failed", 0, 0, <<>>,
                        ConversionFailedText, local[j].file_size)
    /\ pc' = [pc EXCEPT ![j] = "returning"]
    /\ UNCHANGED <<printed, file_paths, input_exists, main_result, num_threads, images_dir, job, image_writes, report, mainpc, worker, handlers,
                   warnings_captured, local, future, results, returned,
                   finished>>

\* return result / return path.name: the pool sets the future's result and
\* the thread is free again
WorkerReturns(j) ==
    /\ pc[j] = "returning"
    /\ future' = [future EXCEPT ![j] =
                    [state |-> "FINISHED", outcome |-> "result",
                     value |-> IF ~local[j].result.isnone
                               THEN [isdict |-> TRUE, value |-> local[j].result.value]
                               ELSE [isdict |-> FALSE,
                                     value |-> PathName(file_paths[j])]]]
    /\ pc' = [pc EXCEPT ![j] = "done"]
    /\ local' = [local EXCEPT ![j] = NoLocal]
    /\ finished' = Append(finished, j)
    /\ worker' = [worker EXCEPT ![j] = 0]
    /\ UNCHANGED <<printed, file_paths, input_exists, main_result, num_threads, images_dir, job, image_writes, report, mainpc, handlers,
                   warnings_captured, entries, results, returned>>

PoolNext ==
    \/ ScanMissing
    \/ ScanEmpty
    \/ ScanFound
    \/ MainReturns
    \/ MainRaises
    \/ Submit
    \/ CollectResult
    \/ CollectException
    \/ ReturnLists
    \/ Propagate
    \/ WriteReport
    \/ \E t \in Threads, j \in Jobs : StartJob(t, j)
    \/ \E j \in Jobs : StatOk(j)
    \/ \E j \in Jobs : StatRaises(j)
    \/ \E j \in Jobs : AttachHandler(j)
    \/ \E j \in Jobs, kind \in LogKinds : ConverterLogs(j, kind)
    \/ \E j \in Jobs, d \in Docs : ConvertReturns(j, d)
    \/ \E j \in Jobs : ConvertRaises(j)
    \/ \E j \in Jobs : ExportOk(j)
    \/ \E j \in Jobs : ExportRaises(j)
    \/ \E j \in Jobs : ImagesOk(j)
    \/ \E j \in Jobs : ImagesRaises(j)
    \/ \E j \in Jobs : ContextReturns(j)
    \/ \E j \in Jobs : ContextFails(j)
    \/ \E j \in Jobs : RecordEntry(j)
    \/ \E j \in Jobs : WorkerReturns(j)

\* The retry gate is not in use during an extraction run.
RetryIdle ==
    /\ attempts = 0
    /\ cpc = <<>>
    /\ call = <<>>
    /\ opc = "off"
    /\ obs = [signal |-> FALSE, raised |-> FALSE]

\* _extract_images is not called on its own during an extraction run.
ImagesIdle == ei = [pc |-> "off"]

\* No _WarningCapture handler is exercised on its own.
CaptureIdle == cap = [pc |-> "off"]

\* No AuditLog is exercised on its own.
AuditIdle == al = [pc |-> "off"]

\* match_images is not called.
MatchIdle == mi = [pc |-> "off"]

\* write_output is not called on its own.
WriterIdle == wo = [pc |-> "off"]

\* No record is kept of the counter at the start of the calls.
HistoryOff == hist = <<>>

Init == PoolInit /\ RetryIdle /\ ImagesIdle /\ CaptureIdle /\ AuditIdle
        /\ MatchIdle /\ WriterIdle /\ HistoryOff

Next == PoolNext /\ UNCHANGED <<retryvars, ei, cap, al, mi, wo, hist>>

Spec == Init /\ [][Next]_vars


\* ========================================================================
\* The retry gate: gemini_retry and QuotaObserverHandler (src/src/utils.py)
\* ========================================================================
MaxCalls == 2           \* calls of wrapped functions, overlapping or not
MaxInvocations == 5     \* cap on the operation invocations of one call

DefaultMaxAttempts == 5     \* gemini_retry(max_attempts=5, ...)
VerifyMaxAttempts == 3      \* @gemini_retry(max_attempts=3)

\* The max_attempts of the wrapped functions of the process.
MaxAttemptsChoices == {DefaultMaxAttempts, VerifyMaxAttempts}

\* The calls of wrapped functions made in the process, numbered in the order
\* in which they start; calls that overlap run on different threads.
Calls == 1..MaxCalls

\* str(e) of the failures an operation may raise, as sequences of text pieces.
ErrorTexts == { <<"HTTP ", "429", " quota exceeded">>,
                <<"RESOURCE_EXHAUSTED">>,
                <<"read timeout">> }

NoError == <<>>

Contains(text, piece) == \E i \in 1..Len(text) : text[i] = piece

\* As IsQuotaError, retrying after every failure.
AnyErrorIsQuota(error_msg) == TRUE

\* if "429" in error_msg or "RESOURCE_EXHAUSTED" in error_msg
IsQuotaError(error_msg) ==
    Contains(error_msg, "429") \/ Contains(error_msg, "RESOURCE_EXHAUSTED")

\* What the operation returns when it succeeds.
OperationValue == "response"

NoCall == [max_attempts |-> 0, solo |-> FALSE, invocations |-> 0,
           failures |-> 0, last |-> "none", e |-> NoError, loaded |-> 0,
           sleeps |-> 0, slept |-> 0, outcome |-> [kind |-> "none"]]

\* History kept with a call: invocations and failures count the operation's
\* invocations and its rate-limit failures, last is the kind of the latest
\* invocation's end, sleeps counts the calls of time.sleep and slept is the
\* argument of the latest one, solo says that the call started with the counter at 0
\* and that nobody else has changed the counter since.
\* A write of the counter by c (or by the observer, c = 0) that changes its
\* value disturbs every other call.
Disturb(c, old, new) ==
    [d \in Calls |->
        IF d /= c /\ old /= new THEN [call[d] EXCEPT !.solo = FALSE] ELSE call[d]]

\* A thread calls a wrapped function: wrapper(*args, **kwargs) starts.
BeginCall(c, m) ==
    /\ cpc[c] = "idle"
    /\ \A d \in Calls : d < c => cpc[d] /= "idle"
    /\ cpc' = [cpc EXCEPT ![c] = "test"]
    /\ call' = [call EXCEPT ![c] = [NoCall EXCEPT !.max_attempts = m,
                                                  !.solo = (attempts = 0)]]
    /\ UNCHANGED <<attempts, opc, obs>>

\* while _retry_state["attempts"] < max_attempts: ... return None
LoopEnters(counter, max_attempts) == counter < max_attempts

LoopTest(c) ==
    /\ cpc[c] = "test"
    /\ IF LoopEnters(attempts, call[c].max_attempts)
       THEN /\ cpc' = [cpc EXCEPT ![c] = "invoke"]
            /\ call' = call
       ELSE /\ cpc' = [cpc EXCEPT ![c] = "done"]
            /\ call' = [call EXCEPT ![c].outcome = [kind |-> "returned_none"]]
    /\ UNCHANGED <<attempts, opc, obs>>

\* result = func(*args, **kwargs) returns
InvokeOk(c) ==
    /\ cpc[c] = "invoke"
    /\ call[c].invocations < MaxInvocations
    /\ cpc' = [cpc EXCEPT ![c] = "success"]
    /\ call' = [call EXCEPT ![c].invocations = @ + 1, ![c].last = "ok"]
    /\ UNCHANGED <<attempts, opc, obs>>

\* As AfterSuccess, leaving the counter as it is.
AfterSuccessKeeps(counter) == counter

\* The value the success path stores into the counter.
AfterSuccess(counter) == 0

\* _retry_state["attempts"] = 0; return result
ResetAndReturn(c) ==
    /\ cpc[c] = "success"
    /\ attempts' = AfterSuccess(attempts)
    /\ cpc' = [cpc EXCEPT ![c] = "done"]
    /\ call' = [Disturb(c, attempts, attempts') EXCEPT
                   ![c].outcome = [kind |-> "returned", value |-> OperationValue]]
    /\ UNCHANGED <<opc, obs>>

\* func raises e: except Exception as e, and the test of str(e)
InvokeFails(c, e) ==
    /\ cpc[c] = "invoke"
    /\ call[c].invocations < MaxInvocations
    /\ IF IsQuotaError(e)
       THEN /\ cpc' = [cpc EXCEPT ![c] = "load"]
            /\ call' = [call EXCEPT ![c].invocations = @ + 1,
                                    ![c].failures = @ + 1,
                                    ![c].last = "quota", ![c].e = e]
       ELSE /\ cpc' = [cpc EXCEPT ![c] = "done"]
            /\ call' = [call EXCEPT ![c].invocations = @ + 1,
                                    ![c].last = "other", ![c].e = e,
                                    ![c].outcome = [kind |-> "raised", e |-> e]]
    /\ UNCHANGED <<attempts, opc, obs>>

\* _retry_state["attempts"] += 1 is a read, an addition and a write.
IncrLoad(c) ==
    /\ cpc[c] = "load"
    /\ cpc' = [cpc EXCEPT ![c] = "store"]
    /\ call' = [call EXCEPT ![c].loaded = attempts]
    /\ UNCHANGED <<attempts, opc, obs>>

\* As Incremented, adding 2.
IncrementedByTwo(loaded) == loaded + 2

\* The value that += 1 writes back.
Incremented(loaded) == loaded + 1

IncrStore(c) ==
    /\ cpc[c] = "store"
    /\ attempts' = Incremented(call[c].loaded)
    /\ cpc' = [cpc EXCEPT ![c] = "compare"]
    /\ call' = [Disturb(c, attempts, attempts') EXCEPT ![c].loaded = 0]
    /\ UNCHANGED <<opc, obs>>

\* As Exhausted, with > for >=.
ExhaustedStrict(counter, max_attempts) == counter > max_attempts

\* if _retry_state["attempts"] >= max_attempts
Exhausted(counter, max_attempts) == counter >= max_attempts

Compare(c) ==
    /\ cpc[c] = "compare"
    /\ cpc' = [cpc EXCEPT ![c] =
                  IF Exhausted(attempts, call[c].max_attempts)
                  THEN "giveup" ELSE "sleep"]
    /\ UNCHANGED <<attempts, call, opc, obs>>

\* _retry_state["attempts"] = 0; raise e
ResetAndRaise(c) ==
    /\ cpc[c] = "giveup"
    /\ attempts' = 0
    /\ cpc' = [cpc EXCEPT ![c] = "done"]
    /\ call' = [Disturb(c, attempts, attempts') EXCEPT
                   ![c].outcome = [kind |-> "raised", e |-> call[c].e]]
    /\ UNCHANGED <<opc, obs>>

\* ---- the delay suggested by the failure text ---------------------------
DefaultDelay == 10          \* gemini_retry(..., default_delay=10)

\* The text pieces that \d+ matches as a whole; IntOf is int() of them.
DigitRuns == {"30", "7"}

IntOf(piece) ==
    CASE piece = "30" -> 30
      [] piece = "7"  -> 7

\* The text pieces that [\d\.]+ matches as a whole.
DigitDotRuns == {"30", "7", "12.5", "1.2.3"}

\* float() accepts the piece (it raises ValueError otherwise).
IsFloatLiteral(piece) == piece \in {"30", "7", "12.5"}

\* int(float(piece)): the fraction is cut off.
IntOfFloat(piece) ==
    CASE piece = "30"   -> 30
      [] piece = "7"    -> 7
      [] piece = "12.5" -> 12

\* The positions where pattern  opening (group) closing  matches.
Matches(text, opening, group, closing) ==
    {i \in 1..Len(text) :
        /\ i + 2 <= Len(text)
        /\ text[i] = opening
        /\ text[i + 1] \in group
        /\ text[i + 2] = closing}

\* re.search returns the leftmost match; its group(1).
Group1(text, found) ==
    text[(CHOOSE i \in found : \A k \in found : i <= k) + 1]

ValueErrorText(piece) == <<"could not convert string to float: ", piece>>

\* Lines 60-67: delay = default_delay, replaced by the retryDelay of the
\* text if there is one, else by the "retry in" delay if there is one.
\* The result says whether a statement raised, and what.
ParseDelay(error_msg, default_delay) ==
    LET first == Matches(error_msg, "retryDelay': '", DigitRuns, "s'")
        second == Matches(error_msg, "retry in ", DigitDotRuns, "s")
    IN  IF first /= {}
        THEN [raises |-> FALSE, delay |-> IntOf(Group1(error_msg, first)),
              e |-> NoError]
        ELSE IF second = {}
        THEN [raises |-> FALSE, delay |-> default_delay, e |-> NoError]
        ELSE IF IsFloatLiteral(Group1(error_msg, second))
        THEN [raises |-> FALSE,
              delay |-> IntOfFloat(Group1(error_msg, second)), e |-> NoError]
        ELSE [raises |-> TRUE, delay |-> 0,
              e |-> ValueErrorText(Group1(error_msg, second))]

\* wait_time = delay + 2
WaitTime(delay) == delay + 2

\* The delay is computed and time.sleep(wait_time) is called, then back to
\* the loop test. An exception of the computation is raised inside the
\* except clause and leaves the wrapper.
Sleep(c) ==
    /\ cpc[c] = "sleep"
    /\ LET parsed == ParseDelay(call[c].e, DefaultDelay) IN
        IF ~parsed.raises
        THEN /\ cpc' = [cpc EXCEPT ![c] = "test"]
             /\ call' = [call EXCEPT ![c].e = NoError,
                                     ![c].sleeps = @ + 1,
                                     ![c].slept = WaitTime(parsed.delay)]
        ELSE /\ cpc' = [cpc EXCEPT ![c] = "done"]
             /\ call' = [call EXCEPT ![c].e = NoError,
                            ![c].outcome = [kind |-> "raised", e |-> parsed.e]]
    /\ UNCHANGED <<attempts, opc, obs>>

\* ---- QuotaObserverHandler ---------------------------------------------
\* record.getMessage() of the records the observed loggers emit, as text
\* pieces; "signal" says whether the text is a successful-response signal
\* ("HTTP/1.1 200 OK" in quotes, or "status: 200" in any letter case);
\* formats = FALSE: getMessage raises (the arguments do not fit the format).
LogTexts ==
    { [text |-> <<"HTTP Request: POST ", "\"HTTP/1.1 200 OK\"">>,
       formats |-> TRUE, signal |-> TRUE],
      [text |-> <<"Response ", "Status: 200">>, formats |-> TRUE, signal |-> TRUE],
      [text |-> <<"HTTP Request: POST ", "\"HTTP/1.1 429 Too Many Requests\"">>,
       formats |-> TRUE, signal |-> FALSE],
      [text |-> <<"HTTP/1.1 200 OK">>, formats |-> TRUE, signal |-> FALSE],
      [text |-> <<"%d items">>, formats |-> FALSE, signal |-> FALSE] }

\* str.lower on a text piece
Lower(piece) ==
    CASE piece = "Status: 200" -> "status: 200"
      [] piece = "Response " -> "response "
      [] piece = "HTTP Request: POST " -> "http request: post "
      [] piece = "\"HTTP/1.1 200 OK\"" -> "\"http/1.1 200 ok\""
      [] piece = "\"HTTP/1.1 429 Too Many Requests\"" -> "\"http/1.1 429 too many requests\""
      [] piece = "HTTP/1.1 200 OK" -> "http/1.1 200 ok"
      [] OTHER -> piece

LowerText(text) == [i \in 1..Len(text) |-> Lower(text[i])]

\* As OkSignal, without msg.lower().
OkSignalCaseSensitive(msg) ==
    Contains(msg, "\"HTTP/1.1 200 OK\"") \/ Contains(msg, "status: 200")

\* '"HTTP/1.1 200 OK"' in msg or "status: 200" in msg.lower()
OkSignal(msg) ==
    Contains(msg, "\"HTTP/1.1 200 OK\"") \/ Contains(LowerText(msg), "status: 200")

\* emit, up to the test of the counter; an exception of getMessage is
\* swallowed by except Exception: pass.
ObserverEmit(r) ==
    /\ opc = "idle"
    /\ obs' = [signal |-> r.signal, raised |-> FALSE]
    /\ opc' = IF r.formats /\ OkSignal(r.text) /\ attempts > 0
              THEN "reset" ELSE "idle"
    /\ UNCHANGED <<attempts, cpc, call>>

\* _retry_state["attempts"] = 0
ObserverReset ==
    /\ opc = "reset"
    /\ attempts' = 0
    /\ opc' = "idle"
    /\ call' = Disturb(0, attempts, attempts')
    /\ UNCHANGED <<cpc, obs>>

RetryInit ==
    /\ attempts = 0
    /\ cpc = [c \in Calls |-> "idle"]
    /\ call = [c \in Calls |-> NoCall]
    /\ opc = "idle"
    /\ obs = [signal |-> FALSE, raised |-> FALSE]

RetryNext ==
    \/ \E c \in Calls, m \in MaxAttemptsChoices : BeginCall(c, m)
    \/ \E c \in Calls : LoopTest(c)
    \/ \E c \in Calls : InvokeOk(c)
    \/ \E c \in Calls : ResetAndReturn(c)
    \/ \E c \in Calls, e \in ErrorTexts : InvokeFails(c, e)
    \/ \E c \in Calls : IncrLoad(c)
    \/ \E c \in Calls : IncrStore(c)
    \/ \E c \in Calls : Compare(c)
    \/ \E c \in Calls : ResetAndRaise(c)
    \/ \E c \in Calls : Sleep(c)
    \/ \E r \in LogTexts : ObserverEmit(r)
    \/ ObserverReset

\* No extraction runs while the retry gate is exercised.
GateInit == RetryInit /\ PoolIdle /\ ImagesIdle /\ CaptureIdle /\ AuditIdle
            /\ MatchIdle /\ WriterIdle /\ HistoryOff

GateNext == RetryNext /\ UNCHANGED <<poolvars, ei, cap, al, mi, wo, hist>>

RetrySpec == GateInit /\ [][GateNext]_vars


\* ========================================================================
\* One caller of the retry gate and the delays its failures suggest
\* ========================================================================
\* str(e) of the failures of the operation, with and without a delay.
DelayErrorTexts ==
    { <<"429", " quota exceeded. ", "retryDelay': '", "30", "s'">>,
      <<"429", " Please ", "retry in ", "12.5", "s", ".">>,
      <<"429", " ", "retry in ", "7", "s", ", ", "retryDelay': '", "30", "s'">>,
      <<"429", " ", "retryDelay': '", "12.5", "s'">>,
      <<"429", " ", "retry in ", "1.2.3", "s">>,
      <<"RESOURCE_EXHAUSTED">>,
      <<"read timeout, ", "retry in ", "7", "s">> }

\* One thread calls wrapped functions; nothing is logged meanwhile.
BackoffInit ==
    /\ attempts = 0
    /\ cpc = [c \in Calls |-> "idle"]
    /\ call = [c \in Calls |-> NoCall]
    /\ opc = "off"
    /\ obs = [signal |-> FALSE, raised |-> FALSE]

BackoffNext ==
    \/ \E m \in MaxAttemptsChoices : BeginCall(1, m)
    \/ LoopTest(1)
    \/ InvokeOk(1)
    \/ ResetAndReturn(1)
    \/ \E e \in DelayErrorTexts : InvokeFails(1, e)
    \/ IncrLoad(1)
    \/ IncrStore(1)
    \/ Compare(1)
    \/ ResetAndRaise(1)
    \/ Sleep(1)

SoloInit == BackoffInit /\ PoolIdle /\ ImagesIdle /\ CaptureIdle /\ AuditIdle
            /\ MatchIdle /\ WriterIdle /\ HistoryOff

SoloNext == BackoffNext /\ UNCHANGED <<poolvars, ei, cap, al, mi, wo, hist>>

BackoffSpec == SoloInit /\ [][SoloNext]_vars


\* ========================================================================
\* Callers of the retry gate that share the counter
\* ========================================================================
\* What is remembered of a call that has not started.
NotStarted == [start |-> 0, quiet |-> FALSE]

\* Threads call wrapped functions, overlapping or one after the other;
\* nothing is logged meanwhile.
CallersInit ==
    /\ attempts = 0
    /\ cpc = [c \in Calls |-> "idle"]
    /\ call = [c \in Calls |-> NoCall]
    /\ opc = "off"
    /\ obs = [signal |-> FALSE, raised |-> FALSE]
    /\ hist = [c \in Calls |-> NotStarted]

CallersNext ==
    \/ \E c \in Calls, m \in MaxAttemptsChoices : BeginCall(c, m)
    \/ \E c \in Calls : LoopTest(c)
    \/ \E c \in Calls : InvokeOk(c)
    \/ \E c \in Calls : ResetAndReturn(c)
    \/ \E c \in Calls, e \in ErrorTexts : InvokeFails(c, e)
    \/ \E c \in Calls : IncrLoad(c)
    \/ \E c \in Calls : IncrStore(c)
    \/ \E c \in Calls : Compare(c)
    \/ \E c \in Calls : ResetAndRaise(c)
    \/ \E c \in Calls : Sleep(c)

\* The history of the step just taken: a call that starts remembers the
\* value of _retry_state["attempts"] at that moment; a call in progress
\* stops being quiet when a step of somebody else changes the counter.
Remember ==
    hist' = [c \in Calls |->
                IF cpc[c] = "idle" /\ cpc'[c] /= "idle"
                THEN [start |-> attempts, quiet |-> TRUE]
                ELSE IF /\ cpc[c] \notin {"idle", "done"}
                        /\ cpc'[c] = cpc[c]
                        /\ attempts' /= attempts
                THEN [hist[c] EXCEPT !.quiet = FALSE]
                ELSE hist[c]]

SharedInit == CallersInit /\ PoolIdle /\ ImagesIdle /\ CaptureIdle /\ AuditIdle
              /\ MatchIdle /\ WriterIdle

SharedNext == CallersNext /\ Remember /\ UNCHANGED <<poolvars, ei, cap, al, mi, wo>>

SharedSpec == SharedInit /\ [][SharedNext]_vars


\* ========================================================================
\* _extract_images called on its own (src/src/extraction.py)
\* ========================================================================
\* Picture lists of length n.
RECURSIVE PictureLists(_)
PictureLists(n) ==
    IF n = 0 THEN {<<>>}
    ELSE {Append(l, k) : l \in PictureLists(n - 1), k \in PictureKinds}

\* The documents handed to _extract_images: one without a pictures attribute
\* and one for every picture list of up to MaxPictures pictures.
ImageDocs ==
    {[has_pictures |-> FALSE, pictures |-> <<>>]}
    \cup {[has_pictures |-> TRUE, pictures |-> l]
             : l \in UNION {PictureLists(n) : n \in 0..MaxPictures}}

\* _extract_images(doc, doc_stem, images_dir) is called.
EiInit ==
    \E d \in ImageDocs :
        ei = [pc |-> "mkdir", doc |-> d, doc_stem |-> "doc1", i |-> 1,
              st |-> LoopStart, ret |-> [kind |-> "none"]]

\* images_dir.mkdir(parents=True, exist_ok=True); count = 0
EiMkdirOk ==
    /\ ei.pc = "mkdir"
    /\ ei' = [ei EXCEPT !.pc = "guard"]
    /\ UNCHANGED <<poolvars, retryvars, cap, al, mi, wo, hist>>

\* mkdir raises (images_dir cannot be created): no handler in _extract_images
EiMkdirRaises ==
    /\ ei.pc = "mkdir"
    /\ ei' = [ei EXCEPT !.pc = "raised", !.ret = [kind |-> "exception"]]
    /\ UNCHANGED <<poolvars, retryvars, cap, al, mi, wo, hist>>

\* if not hasattr(doc, "pictures") or not doc.pictures: return 0
EiNoPictures ==
    /\ ei.pc = "guard"
    /\ NoPictures(ei.doc)
    /\ ei' = [ei EXCEPT !.pc = "done", !.ret = [kind |-> "count", value |-> 0]]
    /\ UNCHANGED <<poolvars, retryvars, cap, al, mi, wo, hist>>

EiEnterLoop ==
    /\ ei.pc = "guard"
    /\ ~NoPictures(ei.doc)
    /\ ei' = [ei EXCEPT !.pc = "loop"]
    /\ UNCHANGED <<poolvars, retryvars, cap, al, mi, wo, hist>>

\* One iteration of the for loop.
EiPicture ==
    /\ ei.pc = "loop"
    /\ ei.i <= Len(ei.doc.pictures)
    /\ ei' = [ei EXCEPT !.i = @ + 1,
                        !.st = PictureStep(ei.doc_stem, ei.i - 1,
                                           ei.doc.pictures[ei.i], ei.st)]
    /\ UNCHANGED <<poolvars, retryvars, cap, al, mi, wo, hist>>

\* The loop is exhausted: return count
EiReturn ==
    /\ ei.pc = "loop"
    /\ ei.i > Len(ei.doc.pictures)
    /\ ei' = [ei EXCEPT !.pc = "done",
                        !.ret = [kind |-> "count", value |-> ei.st.count]]
    /\ UNCHANGED <<poolvars, retryvars, cap, al, mi, wo, hist>>

EiNext ==
    \/ EiMkdirOk
    \/ EiMkdirRaises
    \/ EiNoPictures
    \/ EiEnterLoop
    \/ EiPicture
    \/ EiReturn

\* Neither an extraction run nor the retry gate is active.
ExtractorInit == EiInit /\ PoolIdle /\ RetryIdle /\ CaptureIdle /\ AuditIdle
                 /\ MatchIdle /\ WriterIdle /\ HistoryOff

ImagesSpec == ExtractorInit /\ [][EiNext]_vars


\* ========================================================================
\* One _WarningCapture handler on the root logger (src/src/extraction.py)
\* ========================================================================
MaxRecords == 3         \* records logged while the handler exists

\* The records that reach the root logger: converter loggers at every level,
\* the bare "docling" logger, a sibling package and another library.
CaptureKinds ==
    { [name |-> <<"docling", ".", "backend">>, levelname |-> "WARNING"],
      [name |-> <<"docling", ".", "backend">>, levelname |-> "ERROR"],
      [name |-> <<"docling", ".", "pipeline">>, levelname |-> "CRITICAL"],
      [name |-> <<"docling", ".", "backend">>, levelname |-> "INFO"],
      [name |-> <<"docling">>,                 levelname |-> "WARNING"],
      [name |-> <<"docling_core", ".", "types">>, levelname |-> "ERROR"],
      [name |-> <<"pypdf">>,                   levelname |-> "ERROR"] }

\* The threads that log: the pool's threads.
CaptureThreads == 1..DEFAULT_THREADS

\* handler = _WarningCapture(file_path.name, warnings_captured, thread_name),
\* created on pool thread t.
CapInit ==
    \E t \in CaptureThreads :
        cap = [pc |-> "created",
               handler |-> [source_file |-> "a.pdf", target |-> 1,
                            thread_name |-> ThreadName(t),
                            level |-> LevelNo.WARNING],
               target |-> <<>>, emitted |-> <<>>]

\* root_logger.addHandler(handler)
CapAddHandler ==
    /\ cap.pc = "created"
    /\ cap' = [cap EXCEPT !.pc = "attached"]
    /\ UNCHANGED <<poolvars, retryvars, ei, al, mi, wo, hist>>

\* A logger emits a record on thread t; the record propagates to the root
\* logger, which hands it to the handler when the handler is attached.
\* cap.emitted remembers every record, the thread it was logged on and
\* whether the handler was attached (history).
CapLog(kind, t) ==
    /\ cap.pc \in {"created", "attached", "detached"}
    /\ Len(cap.emitted) < MaxRecords
    /\ LET rec == [name |-> kind.name, levelname |-> kind.levelname,
                   msg |-> Len(cap.emitted) + 1]
       IN  cap' = [cap EXCEPT
                      !.target =
                          IF /\ cap.pc = "attached"
                             /\ Captures(cap.handler, rec, ThreadName(t))
                          THEN Append(@, FormatRecord(rec))
                          ELSE @,
                      !.emitted =
                          Append(@, [rec |-> rec, thread |-> ThreadName(t),
                                     during |-> cap.pc = "attached"])]
    /\ UNCHANGED <<poolvars, retryvars, ei, al, mi, wo, hist>>

\* finally: root_logger.removeHandler(handler)
CapRemoveHandler ==
    /\ cap.pc = "attached"
    /\ cap' = [cap EXCEPT !.pc = "detached"]
    /\ UNCHANGED <<poolvars, retryvars, ei, al, mi, wo, hist>>

CapNext ==
    \/ CapAddHandler
    \/ \E kind \in CaptureKinds, t \in CaptureThreads : CapLog(kind, t)
    \/ CapRemoveHandler

HandlerInit == CapInit /\ PoolIdle /\ RetryIdle /\ ImagesIdle /\ AuditIdle
               /\ MatchIdle /\ WriterIdle /\ HistoryOff

CaptureSpec == HandlerInit /\ [][CapNext]_vars


\* ========================================================================
\* One AuditLog and its report file (src/src/audit.py)
\* ========================================================================
MaxEntries == 3         \* calls of add_entry on the log
MaxWrites == 2          \* calls of write_report on the log

\* The arguments of the calls of add_entry: the three statuses the pipeline
\* uses and one it does not, warnings given, empty and left out.
EntryArgs ==
    { [source_file |-> "a.pdf", status |-> "success", page_count |-> 2,
       images_extracted |-> 7, warnings |-> [given |-> FALSE],
       error |-> None, file_size |-> 131072],
      [source_file |-> "b.docx", status |-> "partial", page_count |-> 12,
       images_extracted |-> 0,
       warnings |-> [given |-> TRUE, list |-> <<"w1", "w2">>],
       error |-> None, file_size |-> 1572864],
      [source_file |-> "a.pdf", status |-> "failed", page_count |-> 0,
       images_extracted |-> 0, warnings |-> [given |-> TRUE, list |-> <<>>],
       error |-> ConversionFailedText, file_size |-> 131072],
      [source_file |-> "c.txt", status |-> "skipped", page_count |-> 0,
       images_extracted |-> 7, warnings |-> [given |-> FALSE],
       error |-> None, file_size |-> 1572864] }

\* warnings or []
OrEmpty(warnings) == IF warnings.given THEN warnings.list ELSE <<>>

\* ---- json.dumps and json.loads -----------------------------------------
\* As Digits, least significant digit first.
RECURSIVE DigitsLeastFirst(_)
DigitsLeastFirst(n) ==
    IF n < 10 THEN <<n>> ELSE <<n % 10>> \o DigitsLeastFirst(n \div 10)

\* The decimal digits of a natural number, most significant first.
RECURSIVE Digits(_)
Digits(n) == IF n < 10 THEN <<n>> ELSE Append(Digits(n \div 10), n % 10)

\* int() of a digit string.
RECURSIVE DigitsValue(_)
DigitsValue(d) ==
    IF Len(d) = 1 THEN d[1]
    ELSE 10 * DigitsValue(SubSeq(d, 1, Len(d) - 1)) + d[Len(d)]

\* repr of a float with at most two decimals, given in hundredths: the
\* integer part, the point and the decimals without trailing zeros ("1.5",
\* "0.13", "2.0").
FloatLiteral(hundredths) ==
    LET whole == hundredths \div 100
        frac == hundredths % 100
    IN  [whole |-> Digits(whole),
         frac |-> IF frac % 10 = 0 THEN <<frac \div 10>>
                  ELSE <<frac \div 10, frac % 10>>]

\* float() of such a literal, in hundredths.
FloatValue(lit) ==
    100 * DigitsValue(lit.whole)
        + (IF Len(lit.frac) = 1 THEN 10 * lit.frac[1]
           ELSE 10 * lit.frac[1] + lit.frac[2])

\* json.dumps of one entry: numbers become literals, strings and None stay.
DumpsEntry(e) ==
    [source_file |-> e.source_file,
     status |-> e.status,
     file_size_mb |-> FloatLiteral(e.file_size_mb),
     page_count |-> Digits(e.page_count),
     images_extracted |-> Digits(e.images_extracted),
     warnings |-> e.warnings,
     error |-> e.error]

LoadsEntry(t) ==
    [source_file |-> t.source_file,
     status |-> t.status,
     file_size_mb |-> FloatValue(t.file_size_mb),
     page_count |-> DigitsValue(t.page_count),
     images_extracted |-> DigitsValue(t.images_extracted),
     warnings |-> t.warnings,
     error |-> t.error]

\* json.dumps(report, indent=2, ensure_ascii=False)
Dumps(r) ==
    [run_timestamp |-> r.run_timestamp,
     summary |-> [k \in DOMAIN r.summary |-> Digits(r.summary[k])],
     documents |-> [i \in 1..Len(r.documents) |-> DumpsEntry(r.documents[i])]]

\* json.loads of the text of a report file
Loads(t) ==
    [run_timestamp |-> t.run_timestamp,
     summary |-> [k \in DOMAIN t.summary |-> DigitsValue(t.summary[k])],
     documents |-> [i \in 1..Len(t.documents) |-> LoadsEntry(t.documents[i])]]

\* datetime.now(tz=timezone.utc).isoformat() at clock value now
IsoFormat(now) == <<"2026-01-01T00:00:", now, "+00:00">>

\* As RunTimestamp, taking the time of the call of write_report.
RunTimestampOfWrite(started_at, now) == IsoFormat(now)

\* "run_timestamp": self._started_at
RunTimestamp(started_at, now) == started_at

NoFile == [exists |-> FALSE]

\* audit = AuditLog() at clock value 1
AlInit ==
    al = [pc |-> "ready", started_at |-> IsoFormat(1), now |-> 1,
          entries |-> <<>>, adds |-> 0, file |-> NoFile, reports |-> <<>>]

\* audit.add_entry(...). al.adds counts the calls (history).
AlAddEntry(a) ==
    /\ al.pc = "ready"
    /\ al.adds < MaxEntries
    /\ al' = [al EXCEPT
                !.entries = AddEntryTo(@, a.source_file, a.status, a.page_count,
                                       a.images_extracted, OrEmpty(a.warnings),
                                       a.error, a.file_size),
                !.adds = @ + 1,
                !.now = @ + 1]
    /\ UNCHANGED <<poolvars, retryvars, ei, cap, mi, wo, hist>>

\* audit.write_report(output_dir): the report dict is serialised and
\* replaces the content of output_dir/audit_report.json. al.reports keeps
\* what every call wrote and the entries of the log at that time (history).
AlWriteReport ==
    /\ al.pc = "ready"
    /\ Len(al.reports) < MaxWrites
    /\ LET r == [run_timestamp |-> RunTimestamp(al.started_at, al.now + 1),
                 summary |-> Report(al.entries).summary,
                 documents |-> Report(al.entries).documents]
       IN  al' = [al EXCEPT
                    !.file = [exists |-> TRUE, text |-> Dumps(r)],
                    !.reports = Append(@, [text |-> Dumps(r),
                                           entries |-> al.entries]),
                    !.now = @ + 1]
    /\ UNCHANGED <<poolvars, retryvars, ei, cap, mi, wo, hist>>

AlNext ==
    \/ \E a \in EntryArgs : AlAddEntry(a)
    \/ AlWriteReport

LogInit == AlInit /\ PoolIdle /\ RetryIdle /\ ImagesIdle /\ CaptureIdle
           /\ MatchIdle /\ WriterIdle /\ HistoryOff

AuditSpec == LogInit /\ [][AlNext]_vars


\* ========================================================================
\* match_images over one used_images set (src/src/image_matcher.py)
\* ========================================================================
MaxMatches == 3         \* calls of match_images sharing the set

\* The .png files the images directory may hold, in the order of their
\* names (sorted(..., key=name)): each name is document part, middle part,
\* number part and extension.
ImageNames ==
    << [doc |-> "OtherDoc", mid |-> "_img_", num |-> "002", ext |-> ".png"],
       [doc |-> "TestDoc",  mid |-> "_img_", num |-> "001", ext |-> ".png"],
       [doc |-> "TestDoc",  mid |-> "_img_", num |-> "002", ext |-> ".png"],
       [doc |-> "TestDoc",  mid |-> "_img_", num |-> "x",   ext |-> ".png"],
       [doc |-> "testdoc",  mid |-> "_img_", num |-> "000", ext |-> ".png"] >>

\* The source_doc_names of the calls: name and extension of each document.
DocNameLists ==
    { << <<"TestDoc", ".pdf">> >>,
      << <<"testdoc", "">> >>,
      << <<"OtherDoc", ".docx">>, <<"TestDoc", ".pdf">> >>,
      << <<"Missing", ".pptx">> >>,
      << <<"TestDoc", ".txt">> >> }

\* doc_name.replace(".pdf", "").replace(".docx", "").replace(".pptx", "")
CleanName(doc_name) ==
    IF doc_name[2] \in {".pdf", ".docx", ".pptx"}
    THEN <<doc_name[1], "">>
    ELSE doc_name

\* str.lower, for re.IGNORECASE
LowerName(part) ==
    CASE part = "TestDoc"  -> "testdoc"
      [] part = "OtherDoc" -> "otherdoc"
      [] part = "Missing"  -> "missing"
      [] OTHER -> part

\* \d+ matches the number part as a whole.
IsNumber(part) == part \in {"000", "001", "002"}

\* pattern.match(img.name) for ^clean_name_img_\d+\.png$ with re.IGNORECASE
PatternMatches(clean_name, img) ==
    /\ clean_name[2] = ""
    /\ LowerName(img.doc) = LowerName(clean_name[1])
    /\ img.mid = "_img_"
    /\ IsNumber(img.num)
    /\ img.ext = ".png"

\* str(img) for an image of the directory
PathOf(dir, i) == <<dir, i>>

\* As Candidates, without the test of used_images.
CandidatesAnyUse(clean_name, all_images, dir, used_images) ==
    {i \in all_images : PatternMatches(clean_name, ImageNames[i])}

\* candidates = [img for img in all_images
\*               if pattern.match(img.name) and str(img) not in used_images]
Candidates(clean_name, all_images, dir, used_images) ==
    {i \in all_images :
        /\ PatternMatches(clean_name, ImageNames[i])
        /\ PathOf(dir, i) \notin used_images}

NoMatch == [found |-> FALSE]

\* The for loop from the k-th document name on: the first document with
\* candidates gives its first candidate by name.
RECURSIVE MatchFrom(_, _, _, _, _)
MatchFrom(k, source_doc_names, all_images, dir, used_images) ==
    IF k > Len(source_doc_names) THEN NoMatch
    ELSE LET candidates == Candidates(CleanName(source_doc_names[k]),
                                      all_images, dir, used_images)
         IN  IF candidates /= {}
             THEN [found |-> TRUE,
                   selected |-> CHOOSE i \in candidates :
                                    \A o \in candidates : i <= o]
             ELSE MatchFrom(k + 1, source_doc_names, all_images, dir,
                            used_images)

\* The directory exists with some of the images, or does not exist; the
\* caller starts with an empty used_images set.
MiInit ==
    \E present \in SUBSET (1..Len(ImageNames)), there \in BOOLEAN :
        /\ ~there => present = {}
        /\ mi = [pc |-> "ready", images_dir |-> "images", exists |-> there,
                 all_images |-> present, used_images |-> {},
                 calls |-> <<>>]

\* match_images(source_doc_names, images_dir, used_images). mi.calls keeps
\* the arguments and the value of every call (history).
MiCall(source_doc_names) ==
    /\ mi.pc = "ready"
    /\ Len(mi.calls) < MaxMatches
    /\ LET m == IF mi.exists
                THEN MatchFrom(1, source_doc_names, mi.all_images,
                               mi.images_dir, mi.used_images)
                ELSE NoMatch
       IN  mi' = [mi EXCEPT
                    !.used_images =
                        IF m.found
                        THEN @ \cup {PathOf(mi.images_dir, m.selected)}
                        ELSE @,
                    !.calls = Append(@,
                        [names |-> source_doc_names,
                         value |-> IF m.found
                                   THEN [isnone |-> FALSE,
                                         path |-> PathOf(mi.images_dir, m.selected)]
                                   ELSE [isnone |-> TRUE]])]
    /\ UNCHANGED <<poolvars, retryvars, ei, cap, al, wo, hist>>

MiNext == \E names \in DocNameLists : MiCall(names)

MatcherInit ==
    MiInit /\ PoolIdle /\ RetryIdle /\ ImagesIdle /\ CaptureIdle /\ AuditIdle
           /\ WriterIdle /\ HistoryOff

MatchSpec == MatcherInit /\ [][MiNext]_vars


\* ========================================================================
\* write_output (src/src/output_writer.py)
\* ========================================================================
MaxDocs == 2            \* documents handed to write_output

\* source_file of the documents of an input directory, as text pieces; the
\* last piece is the suffix.
SourceFiles ==
    { <<"doc1", ".pdf">>, <<"doc1", ".docx">>, <<"Doc1", ".pdf">>,
      <<"my", " ", "doc", ".pdf">>, <<"my", "_", "doc", ".pdf">>,
      <<"report", ".pptx">> }

\* Lists of at most n documents with distinct source filenames.
RECURSIVE DocLists(_)
DocLists(n) ==
    IF n = 0 THEN {<<>>}
    ELSE LET shorter == DocLists(n - 1) IN
         shorter \cup {Append(q, f) : q \in shorter, f \in SourceFiles}

DistinctFiles(q) == \A i, k \in 1..Len(q) : q[i] = q[k] => i = k

\* --mode, choices=["per_document", "single"]
Modes == {"per_document", "single"}

\* Path(filename).stem: the name without its last suffix.
Stem(filename) == SubSeq(filename, 1, Len(filename) - 1)

\* str.replace(" ", "_") on a text piece
ReplaceSpace(piece) == IF piece = " " THEN "_" ELSE piece

\* str.lower on a piece of a file name
LowerPiece(piece) ==
    CASE piece = "Doc1" -> "doc1"
      [] OTHER -> piece

\* _safe_stem: stem.replace(" ", "_").lower()
SafeStem(filename) ==
    LET stem == Stem(filename)
    IN  [i \in 1..Len(stem) |-> LowerPiece(ReplaceSpace(stem[i]))]

\* output_dir / f"{_safe_stem(doc['source_file'])}.md"
OutPath(source_file) == Append(SafeStem(source_file), ".md")

\* output_dir / "context.md"
ContextPath == <<"context", ".md">>

\* path.write_text(text): the file is created or its content replaced.
\* The text is given by the source files of the documents it renders.
WriteText(files, path, text) ==
    {f \in files : f.path /= path} \cup {[path |-> path, text |-> text]}

WoInit ==
    \E docs \in {q \in DocLists(MaxDocs) : DistinctFiles(q)}, mode \in Modes :
        wo = [pc |-> "call", docs |-> docs, mode |-> mode, dir |-> FALSE,
              files |-> {}, n |-> 1, written |-> <<>>, returned |-> <<>>]

\* output_dir.mkdir(parents=True, exist_ok=True) and the test of mode
WoBegin ==
    /\ wo.pc = "call"
    /\ wo' = [wo EXCEPT !.dir = TRUE,
                        !.pc = IF wo.mode = "single" THEN "single"
                               ELSE "per_document"]

\* _write_per_document: one pass of the loop over docs
WoWriteDocument ==
    /\ wo.pc = "per_document"
    /\ wo.n <= Len(wo.docs)
    /\ LET doc == wo.docs[wo.n]
           out_path == OutPath(doc)
       IN  wo' = [wo EXCEPT !.files = WriteText(@, out_path, <<doc>>),
                            !.written = Append(@, out_path),
                            !.n = @ + 1]

\* return written
WoReturnWritten ==
    /\ wo.pc = "per_document"
    /\ wo.n > Len(wo.docs)
    /\ wo' = [wo EXCEPT !.pc = "done", !.returned = wo.written]

\* _write_single: all documents go into context.md; return [out_path]
WoWriteSingle ==
    /\ wo.pc = "single"
    /\ wo' = [wo EXCEPT !.files = WriteText(@, ContextPath, wo.docs),
                        !.pc = "done", !.returned = <<ContextPath>>]

WoNext ==
    /\ \/ WoBegin
       \/ WoWriteDocument
       \/ WoReturnWritten
       \/ WoWriteSingle
    /\ UNCHANGED <<poolvars, retryvars, ei, cap, al, mi, hist>>

WriterInit ==
    WoInit /\ PoolIdle /\ RetryIdle /\ ImagesIdle /\ CaptureIdle /\ AuditIdle
           /\ MatchIdle /\ HistoryOff

WriterSpec == WriterInit /\ [][WoNext]_vars


\* ========================================================================
\* Properties
\* ========================================================================
Range(seq) == {seq[i] : i \in 1..Len(seq)}

\* A formatted warning is <<levelname, logger name, message>>, and the
\* converter's message for a document starts with the document's file name.
WarningSource(w) == w[3][1]

\* ---- C1 ----------------------------------------------------------------
\* C1: extract_all returns normally for every batch, whichever step of
\* whichever job fails, and the two lists it returns together have one
\* element per path: len(successes) + len(failed_names) = N.
C1_BatchPartition ==
    /\ mainpc /= "raised"
    /\ mainpc = "returned" =>
          Len(returned.successful) + Len(returned.failed) = Len(file_paths)

\* ---- C2 ----------------------------------------------------------------
\* C2: warning isolation. Every warning in a job's capture list, in the
\* result of its extract_context call and in its audit entry was emitted
\* while that job's document was converted, never during another job's
\* conversion, be it concurrent on another worker or earlier on the same one.
C2_WarningIsolation ==
    /\ \A j \in Jobs : \A w \in Range(warnings_captured[j]) :
          WarningSource(w) = PathName(file_paths[j])
    /\ \A j \in Jobs : ~local[j].result.isnone =>
          \A w \in Range(local[j].result.value.warnings) :
              WarningSource(w) = PathName(file_paths[j])
    /\ \A i \in 1..Len(entries) : \A w \in Range(entries[i].warnings) :
          WarningSource(w) = entries[i].source_file

\* Two jobs are converting at the same time on different workers and the
\* converter has logged a captured warning for each.
C2_Witness ==
    \E a, b \in Jobs :
        /\ a /= b
        /\ pc[a] = "convert" /\ pc[b] = "convert"
        /\ worker[a] /= worker[b]
        /\ warnings_captured[a] /= <<>>
        /\ warnings_captured[b] /= <<>>

\* ---- C3 ----------------------------------------------------------------
\* C3: every recorded audit entry has status "failed" exactly when its error
\* is set, status "partial" exactly when its warning list is non-empty, and
\* status "success" only with an empty warning list.
C3_AuditInvariant ==
    \A i \in 1..Len(entries) :
        LET entry == entries[i] IN
        /\ (entry.status = "failed") <=> (entry.error /= None)
        /\ (entry.status = "partial") <=> (entry.warnings /= <<>>)
        /\ (entry.status = "success") => (entry.warnings = <<>>)

\* A batch has recorded a partial and a failed entry.
C3_Witness ==
    /\ \E i \in 1..Len(entries) : entries[i].status = "partial"
    /\ \E i \in 1..Len(entries) : entries[i].status = "failed"

\* ---- C10 ---------------------------------------------------------------
\* The extraction results of the jobs listed in order that returned a dict.
RECURSIVE DictsOf(_)
DictsOf(order) ==
    IF order = <<>> THEN <<>>
    ELSE LET f == future[Head(order)] IN
         IF f.state = "FINISHED" /\ f.outcome = "result" /\ f.value.isdict
         THEN <<f.value.value>> \o DictsOf(Tail(order))
         ELSE DictsOf(Tail(order))

\* The file names of the jobs listed in order whose conversion failed.
RECURSIVE FailedNamesOf(_)
FailedNamesOf(order) ==
    IF order = <<>> THEN <<>>
    ELSE LET f == future[Head(order)] IN
         IF f.state = "FINISHED" /\ f.outcome = "result" /\ ~f.value.isdict
         THEN <<PathName(file_paths[Head(order)])>> \o FailedNamesOf(Tail(order))
         ELSE FailedNamesOf(Tail(order))

InputOrder == [i \in 1..Len(file_paths) |-> i]

\* C10 as claimed: the returned successes are in the order in which their
\* jobs completed, and failed_names are the names of the failed jobs.
C10_CompletionOrder ==
    mainpc = "returned" =>
        /\ returned.successful = DictsOf(finished)
        /\ Range(returned.failed) = Range(FailedNamesOf(finished))

\* C10 amended: the returned successes are the extraction results in the
\* order of the input paths, whatever the order of completion, and
\* failed_names are the file names of the failed jobs, in input order too.
C10_InputOrder ==
    mainpc = "returned" =>
        /\ returned.successful = DictsOf(InputOrder)
        /\ returned.failed = FailedNamesOf(InputOrder)

\* extract_all has returned two results whose jobs completed in the order
\* opposite to the input order.
C10_Witness ==
    /\ mainpc = "returned"
    /\ Len(returned.successful) >= 2
    /\ \E i, k \in 1..Len(finished) :
          /\ i < k
          /\ finished[i] > finished[k]
          /\ future[finished[i]].outcome = "result"
          /\ future[finished[i]].value.isdict
          /\ future[finished[k]].outcome = "result"
          /\ future[finished[k]].value.isdict

\* ---- C4 ----------------------------------------------------------------
HasQuotaSignal(e) == "429" \in Range(e) \/ "RESOURCE_EXHAUSTED" \in Range(e)

\* C4: a call that starts with the counter at 0, is not disturbed, and whose
\* operation fails with the rate-limit signal k < max_attempts times and
\* otherwise succeeds, invokes the operation k + 1 times, returns the
\* operation's value and leaves the counter at 0.
C4_TransientRateLimit ==
    \A c \in Calls :
        ( /\ cpc[c] = "done"
          /\ call[c].solo
          /\ call[c].last /= "other"
          /\ call[c].failures < call[c].max_attempts )
        => /\ call[c].outcome = [kind |-> "returned", value |-> OperationValue]
           /\ call[c].invocations = call[c].failures + 1
           /\ attempts = 0

\* The spec's case: two rate-limit failures, then success, max_attempts = 5.
C4_Witness ==
    \E c \in Calls :
        /\ cpc[c] = "done"
        /\ call[c].solo
        /\ call[c].max_attempts = DefaultMaxAttempts
        /\ call[c].failures = 2
        /\ call[c].outcome.kind = "returned"

\* ---- C5 ----------------------------------------------------------------
\* C5: a call that starts with the counter at 0, is not disturbed, and whose
\* operation fails with the rate-limit signal at every invocation, invokes it
\* max_attempts times, then propagates the operation's failure, and leaves
\* the counter at 0.
C5_Exhaustion ==
    \A c \in Calls :
        ( /\ cpc[c] = "done"
          /\ call[c].solo
          /\ call[c].failures = call[c].invocations )
        => /\ call[c].invocations = call[c].max_attempts
           /\ call[c].outcome.kind = "raised"
           /\ call[c].outcome.e = call[c].e
           /\ HasQuotaSignal(call[c].outcome.e)
           /\ attempts = 0

C5_Witness ==
    \E c \in Calls :
        /\ cpc[c] = "done"
        /\ call[c].solo
        /\ call[c].max_attempts = DefaultMaxAttempts
        /\ call[c].failures = DefaultMaxAttempts
        /\ call[c].outcome.kind = "raised"

\* ---- C6 ----------------------------------------------------------------
\* The step in which the operation raises a failure without "429" and
\* without "RESOURCE_EXHAUSTED" ends the call with that failure and leaves
\* the counter alone (the call never reaches the sleep).
C6_Step ==
    \A c \in Calls :
        ( /\ cpc[c] = "invoke"
          /\ call'[c].invocations = call[c].invocations + 1
          /\ call'[c].last /= "ok"
          /\ ~HasQuotaSignal(call'[c].e) )
        => /\ cpc'[c] = "done"
           /\ call'[c].outcome = [kind |-> "raised", e |-> call'[c].e]
           /\ attempts' = attempts

\* A call that has ended invokes nothing more.
C6_Final ==
    \A c \in Calls :
        cpc[c] = "done" => /\ cpc'[c] = "done"
                           /\ call'[c].invocations = call[c].invocations
                           /\ call'[c].outcome = call[c].outcome

\* C6: when the operation raises a failure whose text has neither "429" nor
\* "RESOURCE_EXHAUSTED", the call ends at once by raising that same failure:
\* no further invocation, no sleep, and the counter keeps its value.
C6_NonQuotaFailure == [][C6_Step /\ C6_Final]_vars

\* A call has ended with a failure that is not a rate-limit failure after
\* some rate-limit failures, and the counter still has their count.
C6_Witness ==
    \E c \in Calls :
        /\ cpc[c] = "done"
        /\ call[c].last = "other"
        /\ call[c].failures >= 1
        /\ call[c].solo
        /\ attempts = call[c].failures

\* ---- C7 ----------------------------------------------------------------
\* C7: every call invokes the operation at least once and ends by returning
\* the operation's value or by raising the operation's failure.
C7_CallOutcome ==
    \A c \in Calls :
        cpc[c] = "done" =>
            /\ call[c].invocations >= 1
            /\ \/ call[c].outcome = [kind |-> "returned", value |-> OperationValue]
               \/ /\ call[c].outcome.kind = "raised"
                  /\ call[c].outcome.e \in ErrorTexts

\* ---- C8 ----------------------------------------------------------------
\* A call is between its increment of the counter and its comparison/reset.
InInstant(c) == cpc[c] \in {"compare", "giveup"}

InProgress(c) == cpc[c] \notin {"idle", "done"}

\* C8: outside the instant between a caller's increment and its following
\* comparison/reset, 0 <= counter < max_attempts for every caller's
\* max_attempts.
C8_CounterRange ==
    (\A c \in Calls : ~InInstant(c)) =>
        \A c \in Calls : InProgress(c) =>
            0 <= attempts /\ attempts < call[c].max_attempts

\* ---- C9 ----------------------------------------------------------------
\* The step that ends emit for a record with a successful-response signal
\* leaves the counter at 0; no step of emit for a record without one changes
\* the counter; no step of emit raises.
C9_Step ==
    /\ ( /\ opc' = "idle"
         /\ obs'.signal
         /\ (opc = "reset" \/ obs' /= obs) ) => attempts' = 0
    /\ (opc = "reset" /\ opc' = "idle" /\ ~obs.signal) => attempts' = attempts
    /\ (obs' /= obs /\ ~obs'.signal) => (opc' = "idle" /\ attempts' = attempts)
    /\ ~obs'.raised

\* C9: when the observer has handled a record with a successful-response
\* signal the counter is 0 immediately afterwards; handling a record without
\* one leaves the counter unchanged; emit never raises.
C9_PassiveObserver == [][C9_Step]_vars

\* The only call in progress sleeps after rate-limit failures, and the
\* observer has reset the counter on a successful-response signal.
C9_Witness ==
    /\ opc = "idle"
    /\ obs.signal
    /\ attempts = 0
    /\ \E c \in Calls :
          /\ cpc[c] = "sleep"
          /\ call[c].failures >= 1
          /\ ~call[c].solo
          /\ \A d \in Calls : d /= c => cpc[d] = "idle"

\* ---- C11 ---------------------------------------------------------------
\* The state of a job: PENDING until a pool thread takes it, RUNNING while the
\* thread is inside _worker, then SUCCEEDED, PARTIAL or FAILED after the
\* value _worker returned; ERRORED when _worker raised, CANCELLED when the
\* future was cancelled before it started.
JobState(j) ==
    IF pc[j] \in {"new", "queued"} THEN "PENDING"
    ELSE IF pc[j] \in RunningPcs THEN "RUNNING"
    ELSE IF pc[j] = "raised" THEN "ERRORED"
    ELSE IF pc[j] = "cancelled" THEN "CANCELLED"
    ELSE IF ~future[j].value.isdict THEN "FAILED"
    ELSE IF future[j].value.value.warnings /= <<>> THEN "PARTIAL"
    ELSE "SUCCEEDED"

ExtractAllEnded == mainpc \in {"returned", "reported", "raised"}

\* C11: the converter is never invoked twice for a path, and when extract_all
\* has ended it has been invoked exactly once for every path of the batch and
\* every job is SUCCEEDED, PARTIAL or FAILED, whatever happened to the other
\* jobs.
C11_EveryPathProcessed ==
    /\ \A j \in Jobs : job[j].converts <= 1
    /\ ExtractAllEnded =>
          \A j \in Jobs : /\ job[j].converts = 1
                          /\ JobState(j) \in {"SUCCEEDED", "PARTIAL", "FAILED"}


\* ---- C12 ---------------------------------------------------------------
\* The jobs a pool thread is running (inside _worker, from the stat call over
\* the converter call to the audit entry and the return).
RunningJobs == {j \in Jobs : pc[j] \in RunningPcs}

\* C12: at most num_threads jobs are running at any time, every running job
\* is run by one of the num_threads pool threads, and no pool thread runs
\* two jobs at once: it finishes a job before it takes the next.
C12_BoundedConcurrency ==
    /\ Cardinality(RunningJobs) <= num_threads
    /\ \A j \in RunningJobs : worker[j] \in Threads
    /\ \A a, b \in RunningJobs : a /= b => worker[a] /= worker[b]

\* Every pool thread is running a job while another job waits in the queue.
C12_Witness ==
    /\ Cardinality(RunningJobs) = num_threads
    /\ \E j \in Jobs : pc[j] = "queued"
    /\ \E j \in RunningJobs : pc[j] = "audit"


\* ---- C13 ---------------------------------------------------------------
\* The audit entry that belongs to job j, from the value its _worker call
\* returned and the size of its file.
EntryOf(j) ==
    LET v == future[j].value IN
    IF v.isdict
    THEN [source_file |-> PathName(file_paths[j]),
          status |-> IF v.value.warnings /= <<>> THEN "partial" ELSE "success",
          file_size_mb |-> RoundMB(StatSize(file_paths[j])),
          page_count |-> v.value.page_count,
          images_extracted |-> v.value.images_extracted,
          warnings |-> v.value.warnings,
          error |-> None]
    ELSE [source_file |-> PathName(file_paths[j]),
          status |-> "failed",
          file_size_mb |-> RoundMB(StatSize(file_paths[j])),
          page_count |-> 0,
          images_extracted |-> 0,
          warnings |-> <<>>,
          error |-> ConversionFailedText]

ExtractAllReturned == mainpc \in {"returned", "reported"}

\* C13: after extract_all has returned for N paths the audit log holds
\* exactly N entries, and for every job exactly one of them carries the job's
\* file name; that entry has the job's own values in all its fields.
C13_OneEntryPerJob ==
    ExtractAllReturned =>
        /\ Len(entries) = Len(file_paths)
        /\ \A j \in Jobs :
              LET mine == {i \in 1..Len(entries) :
                              entries[i].source_file = PathName(file_paths[j])}
              IN  /\ Cardinality(mine) = 1
                  /\ \A i \in mine : entries[i] = EntryOf(j)

\* extract_all has returned for two paths whose workers ran on two threads
\* and recorded their entries in the order opposite to the input order.
C13_Witness ==
    /\ ExtractAllReturned
    /\ num_threads >= 2
    /\ Len(entries) = 2
    /\ entries[1].source_file = PathName(file_paths[2])
    /\ entries[1].status /= entries[2].status


\* ---- C14 ---------------------------------------------------------------
\* C14: a job in which the conversion (any step of extract_context's try
\* block) raised gets no extraction result: extract_context returns None,
\* _worker returns the file name, the job's audit entry is the failed entry
\* with page_count 0, images_extracted 0, no warnings and the fixed error text
\* (also when warnings had been captured before the exception), and after
\* extract_all has returned the file name is in failed_names and no success
\* result carries it.
C14_ConversionFailure ==
    \A j \in Jobs : job[j].raised =>
        LET name == PathName(file_paths[j]) IN
        /\ pc[j] \in {"except", "audit", "returning", "done"}
        /\ pc[j] \in {"audit", "returning"} => local[j].result.isnone
        /\ pc[j] = "done" => future[j].value = [isdict |-> FALSE, value |-> name]
        /\ pc[j] \in {"returning", "done"} =>
              \E i \in 1..Len(entries) :
                  entries[i] = [source_file |-> name,
                                status |-> "failed",
                                file_size_mb |-> RoundMB(StatSize(file_paths[j])),
                                page_count |-> 0,
                                images_extracted |-> 0,
                                warnings |-> <<>>,
                                error |-> "Docling conversion failed (see console logs)"]
        /\ ExtractAllReturned =>
              /\ name \in Range(returned.failed)
              /\ \A i \in 1..Len(returned.successful) :
                    returned.successful[i].source_file /= name

\* extract_all has returned for a batch in which the converter raised for one
\* document and returned for another.
C14_Witness ==
    /\ ExtractAllReturned
    /\ \E j \in Jobs : job[j].raised /\ job[j].converts = 1
    /\ \E j \in Jobs : ~job[j].raised
    /\ Len(returned.failed) = 1


\* ---- C15 ---------------------------------------------------------------
\* Positions (from 1) of the pictures of a list that have image data and
\* whose save succeeds.
WritablePositions(pictures) == {i \in 1..Len(pictures) : pictures[i] = "ok"}

\* C15: when _extract_images returns, the value it returns is the number of
\* pictures of the list that have image data and were written, which is also
\* the number of files it wrote; pictures without data and pictures whose
\* save fails are skipped and the pictures after them are still handled.
C15_ImageCount ==
    ei.pc = "done" =>
        /\ ei.ret.kind = "count"
        /\ ei.ret.value = Cardinality(WritablePositions(ei.doc.pictures))
        /\ ei.ret.value = Cardinality(ei.st.files)

\* The spec's case: three pictures, the one at index 1 without data, gives 2.
C15_Witness ==
    /\ ei.pc = "done"
    /\ ei.doc.pictures = <<"ok", "nodata", "ok">>
    /\ ei.ret = [kind |-> "count", value |-> 2]

\* ---- C16 ---------------------------------------------------------------
\* The three decimal digits of n < 1000.
Digits3(n) ==
    ToString(n \div 100) \o ToString((n \div 10) % 10) \o ToString(n % 10)

\* C16: the files written so far are exactly <stem>_img_<NNN>.png for the
\* positions NNN (from 0, three digits) of the pictures handled so far that
\* were written, so a skipped picture leaves a gap, and no two of them have
\* the same name.
C16_ImageNames ==
    ei.pc \in {"loop", "done"} =>
        /\ {f.name : f \in ei.st.files} =
              {ei.doc_stem \o "_img_" \o Digits3(i - 1) \o ".png"
                  : i \in {k \in WritablePositions(ei.doc.pictures) : k < ei.i}}
        /\ \A f \in ei.st.files :
              f.name = ei.doc_stem \o "_img_" \o Digits3(f.idx) \o ".png"
        /\ \A f, g \in ei.st.files : f.name = g.name => f = g

\* A skipped picture leaves a gap: indexes 0 and 2 are written, 1 is not.
C16_Witness ==
    /\ ei.pc = "done"
    /\ ei.doc.pictures = <<"ok", "bad", "ok">>
    /\ {f.name : f \in ei.st.files} = {"doc1_img_000.png", "doc1_img_002.png"}


\* ---- C17 ---------------------------------------------------------------
\* C17: no two (document, picture index) pairs of a batch are written to the
\* same path of the shared images_dir.
C17_NoCollision ==
    \A a, b \in image_writes :
        a.path = b.path => (a.job = b.job /\ a.idx = b.idx)


\* ---- C18 ---------------------------------------------------------------
\* The step of a job that runs the image extractor takes the job on to the
\* return of its result dict, never to extract_context's except clause.
C18_Step ==
    \A j \in Jobs :
        (pc[j] = "images" /\ pc'[j] /= "images") =>
            /\ pc'[j] = "return"
            /\ ~job'[j].raised

\* C18: no failure raised while the image extractor runs (creating
\* images_dir, reading a picture's data, writing a file) leaves the extractor
\* or changes the document's status: after the converter and the markdown
\* export succeeded the document is returned as a success result.
C18_ImageFailuresContained == [][C18_Step]_vars


\* ---- C19 ---------------------------------------------------------------
\* The sum of the first n values of a sequence of numbers.
RECURSIVE SumFirst(_, _)
SumFirst(values, n) == IF n = 0 THEN 0 ELSE SumFirst(values, n - 1) + values[n]

EntriesWith(status) == {i \in 1..Len(entries) : entries[i].status = status}

\* C19: the summary of the written report is the exact aggregate of the
\* recorded entries: their number, the number with each status, the sum of
\* their images_extracted and the sum of the lengths of their warning lists;
\* the documents list is the entries in recording order.
C19_ReportAggregates ==
    report.written =>
        /\ report.summary.total_documents = Len(entries)
        /\ report.summary.successful = Cardinality(EntriesWith("success"))
        /\ report.summary.partial = Cardinality(EntriesWith("partial"))
        /\ report.summary.failed = Cardinality(EntriesWith("failed"))
        /\ report.summary.total_images_extracted =
              SumFirst([i \in 1..Len(entries) |-> entries[i].images_extracted],
                       Len(entries))
        /\ report.summary.total_warnings =
              SumFirst([i \in 1..Len(entries) |-> Len(entries[i].warnings)],
                       Len(entries))
        /\ report.documents = entries

\* A report over a failed entry and an entry with two images.
C19_Witness ==
    /\ report.written
    /\ report.summary.failed = 1
    /\ report.summary.total_images_extracted = 2
    /\ report.summary.total_documents = 2

\* ---- C20 ---------------------------------------------------------------
\* The jobs whose conversion raised, those that converted with captured
\* diagnostics and those that converted without.
RaisedJobs == {j \in Jobs : job[j].raised}

DiagnosedJobs ==
    {j \in Jobs \ RaisedJobs : future[j].value.value.warnings /= <<>>}

CleanJobs == (Jobs \ RaisedJobs) \ DiagnosedJobs

NamesOf(jobs) == {PathName(file_paths[j]) : j \in jobs}

ConversionPcs == {"convert", "export", "images", "return", "except"}

\* C21: a job's capture handler is attached to the root logger only while
\* the job is inside extract_context's try statement; once extract_context
\* has returned, with a result or after any exception, the handler is gone,
\* and when extract_all has ended no capture handler is left.
C21_CaptureScope ==
    /\ \A h \in handlers : pc[h.target] \in ConversionPcs
    /\ \A j \in Jobs : pc[j] \in ConversionPcs =>
          \E h \in handlers : h.target = j
    /\ ExtractAllEnded => handlers = {}

\* One job has left extract_context through the except clause and its
\* handler is gone while another job's handler is still attached.
C21_Witness ==
    \E a, b \in Jobs :
        /\ job[a].raised
        /\ pc[a] = "audit"
        /\ pc[b] \in ConversionPcs
        /\ handlers = {WarningCapture(b, worker[b])}


\* ---- C22 ---------------------------------------------------------------
\* The records of a history that belong in the job's warning list: logged
\* while the handler was attached, on the handler's thread, at WARNING or
\* above, by a logger whose name starts with "docling.".
Belongs(e) ==
    /\ e.during
    /\ e.thread = cap.handler.thread_name
    /\ e.rec.levelname \in {"WARNING", "ERROR", "CRITICAL"}
    /\ Len(e.rec.name) >= 2
    /\ e.rec.name[1] = "docling"
    /\ e.rec.name[2] = "."

\* The belonging records of a history, formatted, in emission order.
RECURSIVE ExpectedWarnings(_)
ExpectedWarnings(history) ==
    IF history = <<>> THEN <<>>
    ELSE LET e == history[Len(history)]
             before == ExpectedWarnings(SubSeq(history, 1, Len(history) - 1))
         IN  IF Belongs(e)
             THEN Append(before, <<e.rec.levelname, e.rec.name, e.rec.msg>>)
             ELSE before

\* C22: the target list of a capture handler is exactly the sequence, in
\* emission order, of the records of level WARNING or higher logged while
\* the handler was attached, on the handler's thread, by loggers whose name
\* starts with "docling.", each formatted as level, logger name, message.
C22_WarningList ==
    cap.pc /= "off" => cap.target = ExpectedWarnings(cap.emitted)

\* Three records were logged during the conversion; two were captured, in
\* order, and one was left out.
C22_Witness ==
    /\ cap.pc = "detached"
    /\ Len(cap.emitted) = 3
    /\ \A i \in 1..3 : cap.emitted[i].during
    /\ Len(cap.target) = 2
    /\ cap.target[1][3] < cap.target[2][3]


\* ---- C23 ---------------------------------------------------------------
\* The image files job j has written.
WritesBy(j) == {w \in image_writes : w.job = j}

\* One step, seen from job j.
C23_JobStep(j) ==
    LET moved == pc'[j] /= pc[j]
        ConverterCompletes == job'[j].converts /= job[j].converts
        PageCountRead == pc[j] = "export" /\ moved /\ ~job'[j].raised
        ImagesRun == pc[j] = "images" /\ moved /\ ~job'[j].raised
        EntryRecorded == pc[j] = "audit" /\ moved
    IN  /\ ConverterCompletes =>
            /\ pc[j] = "convert"
            /\ job[j].converts = 0
            /\ local[j].page_count = 0
            /\ WritesBy(j) = {}
            /\ entries' = entries
        /\ PageCountRead =>
            /\ job[j].converts = 1
            /\ local'[j].page_count = GetPageCount(local[j].doc)
            /\ WritesBy(j) = {}
            /\ entries' = entries
        /\ ImagesRun =>
            /\ job[j].converts = 1
            /\ local[j].page_count = GetPageCount(local[j].doc)
            /\ entries' = entries
        /\ image_writes' /= image_writes /\ moved => ImagesRun
        /\ EntryRecorded =>
            /\ pc'[j] = "returning"
            /\ Len(entries') = Len(entries) + 1
            /\ entries'[Len(entries')].source_file = PathName(file_paths[j])
            /\ ~local[j].result.isnone =>
                /\ job[j].converts = 1
                /\ images_dir /= None =>
                      Cardinality(WritesBy(j)) =
                          local[j].result.value.images_extracted
        /\ pc[j] \in {"returning", "done"} =>
            /\ pc'[j] \in {pc[j], "done"}
            /\ job'[j] = job[j]
            /\ warnings_captured'[j] = warnings_captured[j]
            /\ {w \in image_writes' : w.job = j} = WritesBy(j)
            /\ moved => entries' = entries

C23_Step ==
    /\ \A j \in Jobs : C23_JobStep(j)
    /\ entries' /= entries =>
          \E j \in Jobs : pc[j] = "audit" /\ pc'[j] = "returning"
    /\ image_writes' /= image_writes =>
          \E j \in Jobs : pc[j] = "images" /\ pc'[j] /= pc[j]

\* C23: within every job the converter call completes before the page count
\* is read, the page count is read before image extraction runs, image
\* extraction runs before the job's audit entry is recorded, and after its
\* entry is recorded the job does nothing but return.
C23_StepOrder == [][C23_Step]_vars

\* A job that went through all four steps: its entry is recorded with the
\* page count and the images of its document, and it is about to return.
C23_Witness ==
    \E j \in Jobs :
        /\ pc[j] = "returning"
        /\ job[j].converts = 1
        /\ WritesBy(j) /= {}
        /\ entries /= <<>>
        /\ entries[Len(entries)].page_count = 2
        /\ entries[Len(entries)].images_extracted = Cardinality(WritesBy(j))


\* ---- C24 ---------------------------------------------------------------
\* C24: a call whose operation has failed with the rate-limit signal at
\* every invocation has invoked the operation at most max_attempts times,
\* whatever the observer and the other callers did to the shared counter.
C24_RetryBound ==
    \A c \in Calls :
        (cpc[c] /= "idle" /\ call[c].failures = call[c].invocations) =>
            call[c].invocations <= call[c].max_attempts


\* ---- C25 ---------------------------------------------------------------
\* The delay a failure text suggests, in whole seconds: the retryDelay
\* value, else the "retry in" value; 0 - 1 when it suggests none.
Suggested(text) ==
    IF \E i \in 1..Len(text) : text[i] = "retryDelay': '" /\ text[i + 1] = "30"
    THEN 30
    ELSE IF \E i \in 1..Len(text) : text[i] = "retry in " /\ text[i + 1] = "12.5"
    THEN 12
    ELSE IF \E i \in 1..Len(text) : text[i] = "retry in " /\ text[i + 1] = "7"
    THEN 7
    ELSE 0 - 1

ExpectedWait(text) ==
    (IF Suggested(text) >= 0 THEN Suggested(text) ELSE DefaultDelay) + 2

C25_CallStep(c) ==
    LET before == call[c]
        after == call'[c]
        Invoked == after.invocations /= before.invocations
        Ended == cpc[c] /= "done" /\ cpc'[c] = "done"
    IN  \* a rate-limit failure that did not exhaust the attempts is followed
        \* by one sleep of the expected length, and then by the loop test
        /\ (cpc[c] = "sleep" /\ cpc'[c] /= "sleep") =>
              /\ cpc'[c] = "test"
              /\ after.sleeps = before.sleeps + 1
              /\ after.slept = ExpectedWait(before.e)
        \* nothing else sleeps
        /\ after.sleeps /= before.sleeps => cpc[c] = "sleep"
        \* one sleep for every earlier invocation, none before the first
        /\ Invoked => before.sleeps = before.invocations
        \* no sleep after a success or when the failure is propagated
        /\ (Ended /\ after.outcome.kind \in {"returned", "raised"}) =>
              /\ after.sleeps = before.sleeps
              /\ after.sleeps = after.invocations - 1

\* C25: after a rate-limit failure that does not exhaust the attempts the
\* caller sleeps exactly once, for the delay the failure text suggests (else
\* default_delay) plus 2 seconds, before the operation is invoked again; it
\* does not sleep before the first invocation, after a success, or when the
\* failure is propagated.
C25_Backoff == [][\A c \in Calls : C25_CallStep(c)]_vars


\* ---- C26 ---------------------------------------------------------------
\* Some document of the batch was converted (status success or partial).
SomeConverted == \E j \in Jobs : JobState(j) \in {"SUCCEEDED", "PARTIAL"}

\* The batch is not empty and every document of it failed.
AllFailed == file_paths /= <<>> /\ \A j \in Jobs : JobState(j) = "FAILED"

\* C26: when main has ended, it has returned 0 if at least one document was
\* converted, and it has returned 1 if the input directory is missing or if
\* every document of a non-empty batch failed.
C26_ExitCode ==
    main_result /= NoResult =>
        /\ SomeConverted => main_result = [kind |-> "returned", value |-> 0]
        /\ ~input_exists => main_result = [kind |-> "returned", value |-> 1]
        /\ AllFailed => main_result = [kind |-> "returned", value |-> 1]


\* ---- C27 ---------------------------------------------------------------
\* C27: in a run of main a report is written only when every job of the
\* batch has completed and its audit entry is in the log, so the report's
\* total_documents is the number of scanned paths and its documents are all
\* the entries; and a run in which every document failed has written its
\* report by the time main ends.
C27_ReportAfterJobs ==
    /\ report.written =>
          /\ \A j \in Jobs : pc[j] = "done"
          /\ Len(entries) = Len(file_paths)
          /\ report.summary.total_documents = Len(file_paths)
          /\ report.documents = entries
    /\ (AllFailed /\ main_result /= NoResult) =>
          /\ report.written
          /\ report.summary.failed = Len(file_paths)

\* main has returned 1 after a batch of two documents that both failed,
\* and the report counts both.
C27_Witness ==
    /\ main_result = [kind |-> "returned", value |-> 1]
    /\ Len(file_paths) = 2
    /\ AllFailed
    /\ report.written
    /\ report.summary.total_documents = 2
    /\ report.summary.failed = 2


\* ---- C28 ---------------------------------------------------------------
\* One step of the log: is it a call of add_entry or of write_report?
IsAddEntry == al'.adds /= al.adds
IsWriteReport == Len(al'.reports) /= Len(al.reports)

C28_Step ==
    /\ IsAddEntry =>
          /\ al'.adds = al.adds + 1
          /\ Len(al'.entries) = Len(al.entries) + 1
          /\ SubSeq(al'.entries, 1, Len(al.entries)) = al.entries
          /\ al'.started_at = al.started_at
          /\ al'.file = al.file
    /\ IsWriteReport =>
          /\ al'.entries = al.entries
          /\ al'.started_at = al.started_at
    /\ al'.entries /= al.entries => IsAddEntry

\* C28: every call of add_entry, whatever its arguments, adds exactly one
\* entry at the end of the log and leaves the earlier entries and the run
\* timestamp as they were; write_report leaves the entries as they were.
C28_AppendOnly == [][al.pc /= "off" => C28_Step]_vars

\* Three calls of add_entry, one with a status the pipeline never uses,
\* with a call of write_report among them, have left three entries.
C28_Witness ==
    /\ al.pc /= "off"
    /\ al.adds = 3
    /\ Len(al.entries) = 3
    /\ al.entries[2].status = "skipped"
    /\ al.reports /= <<>>
    /\ Len(al.reports[1].entries) = 1

\* ---- C29 ---------------------------------------------------------------
\* C29: two calls of write_report with the same entries in the log write
\* the same text (run_timestamp, summary and documents); the file holds the
\* text of the latest call, whose run_timestamp is the time the log was
\* created and whose documents are all the entries recorded up to that call.
C29_WriteIdempotent ==
    al.pc /= "off" =>
        /\ \A i, k \in 1..Len(al.reports) :
              al.reports[i].entries = al.reports[k].entries =>
                  al.reports[i].text = al.reports[k].text
        /\ al.reports = <<>> => al.file = NoFile
        /\ al.reports /= <<>> =>
              LET latest == al.reports[Len(al.reports)] IN
              /\ al.file = [exists |-> TRUE, text |-> latest.text]
              /\ Loads(al.file.text).run_timestamp = al.started_at
              /\ Loads(al.file.text).documents = latest.entries
              /\ Loads(al.file.text).summary.total_documents
                    = Len(latest.entries)

\* write_report was called twice with the same two entries in the log.
C29_SameTwice ==
    /\ al.pc /= "off"
    /\ Len(al.reports) = 2
    /\ Len(al.reports[1].entries) = 2
    /\ al.reports[1].entries = al.reports[2].entries

\* ---- C30 ---------------------------------------------------------------
\* Counts computed from a log, entry by entry.
CountStatus(log, status) ==
    Cardinality({i \in 1..Len(log) : log[i].status = status})

\* The sum of a sequence of numbers.
RECURSIVE SumSeq(_)
SumSeq(q) ==
    IF q = <<>> THEN 0
    ELSE SumSeq(SubSeq(q, 1, Len(q) - 1)) + q[Len(q)]

\* C30: the summary counts read back from a written audit_report.json are
\* the counts of the entries the log held when the report was written.
C30_RoundTrip ==
    al.pc /= "off" =>
        \A i \in 1..Len(al.reports) :
            LET log == al.reports[i].entries
                summary == Loads(al.reports[i].text).summary
            IN  /\ summary.total_documents = Len(log)
                /\ summary.successful = CountStatus(log, "success")
                /\ summary.partial = CountStatus(log, "partial")
                /\ summary.failed = CountStatus(log, "failed")
                /\ summary.total_images_extracted =
                      SumSeq([k \in 1..Len(log) |-> log[k].images_extracted])
                /\ summary.total_warnings =
                      SumSeq([k \in 1..Len(log) |-> Len(log[k].warnings)])

\* A report was written from three entries whose images add up to 14 and
\* whose statuses do not all count into successful, partial or failed.
C30_Witness ==
    /\ al.pc /= "off"
    /\ al.reports /= <<>>
    /\ LET latest == al.reports[Len(al.reports)]
           summary == Loads(latest.text).summary
       IN  /\ Len(latest.entries) = 3
           /\ summary.total_images_extracted = 14
           /\ summary.successful + summary.partial + summary.failed < 3


\* ---- C31 ---------------------------------------------------------------
\* The images of the directory that belong to a document name: named after
\* it (in any letter case), with a number.
ImagesOfDoc(name) ==
    {i \in mi.all_images :
        /\ LowerName(ImageNames[i].doc) = LowerName(name)
        /\ ImageNames[i].num \in {"000", "001", "002"}}

C31_Step ==
    LET before == mi.used_images
        after == mi'.used_images
        this == mi'.calls[Len(mi'.calls)]
    IN  Len(mi'.calls) = Len(mi.calls) + 1 =>
           /\ ~this.value.isnone =>
                 /\ this.value.path \notin before
                 /\ after = before \cup {this.value.path}
           /\ this.value.isnone => after = before
           /\ (/\ Len(this.names) = 1
               /\ this.names[1][2] \in {".pdf", ".docx", ".pptx", ""}
               /\ \A i \in ImagesOfDoc(this.names[1][1]) :
                     <<mi.images_dir, i>> \in before)
                 => this.value.isnone

\* C31: over a sequence of calls of match_images sharing one used_images
\* set, a returned path was not in the set before the call and is in it
\* afterwards, a call that returns None leaves the set as it was, and a call
\* for a document all of whose images are in the set returns None; no path
\* is returned by two calls.
C31_NoImageTwice ==
    [][(mi.pc /= "off" => C31_Step)
        /\ (mi'.pc /= "off" =>
              \A a, b \in 1..Len(mi'.calls) :
                 (a /= b /\ ~mi'.calls[a].value.isnone
                         /\ ~mi'.calls[b].value.isnone)
                    => mi'.calls[a].value.path /= mi'.calls[b].value.path)]_vars

\* Three calls for TestDoc in a directory with two numbered images of it:
\* two different paths, then None.
C31_Witness ==
    /\ mi.pc /= "off"
    /\ Len(mi.calls) = 3
    /\ \A k \in 1..3 : mi.calls[k].names = << <<"TestDoc", ".pdf">> >>
    /\ ~mi.calls[1].value.isnone
    /\ ~mi.calls[2].value.isnone
    /\ mi.calls[1].value.path /= mi.calls[2].value.path
    /\ mi.calls[3].value.isnone
    /\ Cardinality(mi.used_images) = 2



C33_OneFilePerDocument ==
    wo.pc = "done" =>
        IF wo.mode = "single"
        THEN /\ wo.returned = <<ContextPath>>
             /\ {f.path : f \in wo.files} = {ContextPath}
        ELSE /\ Len(wo.returned) = Len(wo.docs)
             /\ \A i, k \in 1..Len(wo.returned) :
                    wo.returned[i] = wo.returned[k] => i = k
             /\ \A i \in 1..Len(wo.docs) :
                    [path |-> OutPath(wo.docs[i]), text |-> <<wo.docs[i]>>]
                        \in wo.files

\* C34: when extract_all runs with images_dir = None, _extract_images is
\* never called, no image file is written, and every result and every audit
\* entry of the batch has images_extracted = 0.
C34_ImagesOptOut ==
    (mainpc /= "off" /\ images_dir = None) =>
        /\ \A j \in Jobs : job[j].extracts = 0
        /\ image_writes = {}
        /\ \A j \in Jobs : /\ local[j].images_extracted = 0
                            /\ ~local[j].result.isnone =>
                                   local[j].result.value.images_extracted = 0
        /\ \A i \in 1..Len(results) :
               results[i].isdict => results[i].value.images_extracted = 0
        /\ returned.kind = "lists" =>
               \A i \in 1..Len(returned.successful) :
                   returned.successful[i].images_extracted = 0
        /\ \A i \in 1..Len(entries) : entries[i].images_extracted = 0

\* Without an image directory, a document that has pictures went through
\* the image statement, and extract_all returned a result.
C34_Witness ==
    /\ images_dir = None
    /\ \E j \in Jobs : /\ pc[j] = "return"
                        /\ ~NoPictures(local[j].doc)
                        /\ local[j].images_extracted = 0
    /\ \E i \in 1..Len(entries) : entries[i].status /= "failed"

\* C35: in every state in which no wrapped call is in progress the shared
\* counter is 0.
C35_QuiescentZero ==
    (cpc /= <<>> /\ \A c \in DOMAIN cpc : ~InProgress(c)) => attempts = 0

\* The write that ends a call's += 1 of the counter.
C36_Step ==
    \A c \in DOMAIN cpc :
        (cpc[c] = "store" /\ cpc'[c] = "compare") => attempts' = attempts + 1

\* C36: no update of the shared counter is lost: the increment that
\* follows a rate-limit failure raises the counter by exactly 1 from the
\* value it has then, so that k failures with no reset in between raise it
\* by k and after a reset it leaves 0 for 1 only.
C36_NoLostUpdate == [][C36_Step]_vars

\* The audit entries recorded for a file name.
EntriesOf(name) == {i \in 1..Len(entries) : entries[i].source_file = name}

\* C37: after extract_all has returned, every result in successes has
\* exactly one audit entry with its source_file, and that entry has the
\* result's page_count, images_extracted and warnings and the status success
\* or partial; every name in failed_names has exactly one audit entry, with
\* status failed.
C37_ResultsMatchEntries ==
    ExtractAllReturned =>
        /\ \A k \in 1..Len(returned.successful) :
              LET result == returned.successful[k]
                  mine == EntriesOf(result.source_file)
              IN  /\ Cardinality(mine) = 1
                  /\ \A i \in mine :
                        /\ entries[i].page_count = result.page_count
                        /\ entries[i].images_extracted = result.images_extracted
                        /\ entries[i].warnings = result.warnings
                        /\ entries[i].status \in {"success", "partial"}
        /\ \A k \in 1..Len(returned.failed) :
              LET mine == EntriesOf(returned.failed[k])
              IN  /\ Cardinality(mine) = 1
                  /\ \A i \in mine : entries[i].status = "failed"

\* extract_all has returned a result with captured warnings and extracted
\* images, and a failed name.
C37_Witness ==
    /\ ExtractAllReturned
    /\ returned.failed /= <<>>
    /\ \E k \in 1..Len(returned.successful) :
          /\ returned.successful[k].warnings /= <<>>
          /\ returned.successful[k].images_extracted > 0

\* The returned lists are in the order of the input paths.
C38_ListsInInputOrder ==
    ExtractAllReturned =>
        /\ returned.successful = DictsOf(InputOrder)
        /\ returned.failed = FailedNamesOf(InputOrder)

\* C38 as stated: the returned lists are in the order of the input paths
\* and the audit entries are in the order in which the jobs finished.
C38_FinishOrder ==
    /\ C38_ListsInInputOrder
    /\ ExtractAllReturned =>
           /\ Len(entries) = Len(finished)
           /\ \A i \in 1..Len(entries) :
                  entries[i].source_file = PathName(file_paths[finished[i]])

\* A worker's add_entry call puts its job's entry behind the entries
\* recorded before, nothing else changes the entries, and the lists that
\* extract_all returns are in input order.
C38_Step ==
    /\ C38_ListsInInputOrder'
    /\ \A j \in Jobs :
          (pc[j] = "audit" /\ pc'[j] = "returning") =>
              /\ Len(entries') = Len(entries) + 1
              /\ SubSeq(entries', 1, Len(entries)) = entries
              /\ entries'[Len(entries')].source_file = PathName(file_paths[j])
    /\ (\A j \in Jobs : ~(pc[j] = "audit" /\ pc'[j] = "returning")) =>
          entries' = entries

\* C38, amended: the returned lists are in the order of the input paths,
\* and the audit entries are in the order in which the workers recorded
\* them (each after its extraction and before it returns), which need not
\* be the order in which the jobs finished.
C38_RecordingOrder == [][C38_Step]_vars

\* With two threads extract_all has returned, and the entries are in the
\* order opposite to the input order, in which the jobs finished.
C38_Witness ==
    /\ ExtractAllReturned
    /\ num_threads > 1
    /\ finished = <<1, 2>>
    /\ Len(entries) = 2
    /\ entries[1].source_file = PathName(file_paths[2])
    /\ entries[2].source_file = PathName(file_paths[1])

\* C39: in every run that reaches the summary, the image total and the
\* warning total that _print_summary computes equal total_images_extracted
\* and total_warnings of the audit report, the number of processed documents
\* equals successful + partial and the number of failed documents equals
\* failed of the report.
C39_SummaryMatchesReport ==
    printed.printed =>
        /\ report.written
        /\ printed.total_images = report.summary.total_images_extracted
        /\ printed.total_warnings = report.summary.total_warnings
        /\ printed.processed = report.summary.successful + report.summary.partial
        /\ printed.failed = report.summary.failed

\* A summary was printed for a run with a failed document, a captured
\* warning and a document with two or more images.
C39_Witness ==
    /\ printed.printed
    /\ printed.failed >= 1
    /\ printed.total_warnings >= 1
    /\ printed.total_images >= 2
====
